---- MODULE Spec2Model ----
(***************************************************************************)
(* Model of the llm-tracer service: the HTTP handlers of                   *)
(* service/src/server.py over the storage engine of                        *)
(* service/src/storage_dynamodb.py (two key-value tables, traces and       *)
(* spans), with the authorization helpers of service/src/auth.py, and of   *)
(* the client library client/llm_tracer/client.py.                         *)
(*                                                                         *)
(* An item of a table is a function from attribute names to values; an     *)
(* attribute that the item does not carry is outside its DOMAIN.           *)
(* An Optional[...] value of the code is a set: {} is None, {v} is v.      *)
(***************************************************************************)
EXTENDS Integers, Sequences, FiniteSets, TLC

VARIABLES
    traces,        \* the traces table: trace_id -> item
    spans,         \* the spans table: span_id -> item
    now,           \* the wall clock read by datetime.now(UTC) / time.time()
    nextTraceId,   \* identifiers handed out so far by uuid4() for traces
    nextSpanId,    \* identifiers handed out so far by uuid4() for spans
    resp,          \* the response of the request handled in the latest step
    walk,          \* a client that pages through a listing: its cursor and its items
    posted,        \* history: span_id -> trace_id of every POST .../spans answered 200
    requests,      \* RateLimiter.requests: client_ip -> list of request timestamps
    inflight,      \* the requests that passed the middleware and await call_next
    accepted,      \* history: client_ip -> the times of every request the limiter let pass
    environ,       \* os.environ: the variables auth.py reads on every request
    tracer,        \* the client library: a TracerClient, the scopes user code has
                   \* open on it, and what it has called and returned
    running        \* the storage calls that have read their record and have not
                   \* yet written it

\* the state beside the handlers: the client library, and the storage calls
\* in progress
outside == <<tracer, running>>

vars == <<traces, spans, now, nextTraceId, nextSpanId, resp, walk, posted,
          requests, inflight, accepted, environ, outside>>

\* the state in front of the handlers, and outside the service
front == <<requests, inflight, accepted, environ, outside>>

\* the state of the service
service == <<traces, spans, now, nextTraceId, nextSpanId, resp, walk, posted,
             requests, inflight, accepted, environ, running>>

----------------------------------------------------------------------------
(* Bounds of the model *)

MaxTraces == 2
MaxSpans == 2
MaxStoredTraces == 1
MaxStoredSpans == 1
MaxEras == 1
MaxAgeSeconds == 2
MaxLimit == 2
MaxListTraces == 5
MaxCursorTraces == 3

\* RateLimiter(requests_per_minute, window_seconds) of the runs
requests_per_minute == 2
window_seconds == 2

\* requests in flight between the middleware and the handler, and the records
\* the requests that come through the middleware may create
MaxInflight == 1
MaxHttpTraces == 1
MaxHttpSpans == 1

\* the records of the runs in which calls to the store fail, and the calls of
\* one method of which one may fail
MaxFaultTraces == 2
MaxFaultSpans == 1
MaxFaultAt == 4

\* the records of the runs with large payloads
MaxGuardTraces == 1
MaxGuardSpans == 1

\* the records of the runs that ask for the totals: more traces than the 50
\* get_stats looks at
MaxStatsTraces == 52
MaxStatsSpans == 2
MaxRaceTraces == 1
MaxRaceSpans == 1
MaxRunning == 2
MaxSnapshotTraces == 3
MaxFilterTraces == 3
MaxListedSpans == 3

\* the scopes user code opens on the client library, and their nesting
MaxScopes == 3
MaxDepth == 3

\* the records of the runs with nested spans
MaxTreeTraces == 2
MaxTreeSpans == 2

(* Inputs *)

Projects == {"a", "b"}
ApiKeys == {<<"project-", "a">>, <<"project-", "b">>, <<"project-">>}

\* request.client.host
ClientIps == {"10.0.0.1", "10.0.0.2"}

\* instants of the clock, in microseconds, for the runs of the rate limiter: up
\* to, just before and after a window
RateInstants == {0, 1000000, 1999999, 2000000, 3000000}

\* the environment the integration tests set, and others
TestEnviron ==
    ("API_KEY_REQUIRED" :> "true")
        @@ ("API_KEYS" :> << <<"project-", "a">>, <<"project-", "b">> >>)

Environs ==
    {TestEnviron,
     ("API_KEY_REQUIRED" :> "True") @@ ("API_KEYS" :> << <<"project-", "a">> >>),
     ("API_KEY_REQUIRED" :> "true"),
     ("API_KEY_REQUIRED" :> "false") @@ ("DEFAULT_PROJECT_KEY" :> <<"project-", "a">>),
     ("API_KEYS" :> << <<"project-", "a">> >>)}

\* the X-API-Key header of a request: missing, empty, two configured keys and
\* one that is not configured
Headers ==
    {{}, {<<>>}, {<<"project-", "a">>}, {<<"project-", "b">>}, {<<"project-", "x">>}}

\* the requests that come through the middleware
HttpRequests ==
    LET Endpoints ==
            {[op |-> "create_trace", id |-> 0, body |-> [project_id |-> "a"]],
             [op |-> "create_span", id |-> 1, body |-> <<>>],
             [op |-> "complete_span", id |-> 1, body |-> [tokens_input |-> 5]],
             [op |-> "complete_trace", id |-> 1, body |-> [output |-> {"o1"}]],
             [op |-> "get_trace", id |-> 1, body |-> <<>>],
             [op |-> "get_traces", id |-> 0, body |-> [limit |-> 1, cursor |-> {}]],
             [op |-> "get_stats", id |-> 0, body |-> <<>>]}
    IN  {[ip |-> "10.0.0.1", header |-> h, op |-> e.op, id |-> e.id, body |-> e.body] :
            h \in Headers, e \in Endpoints}

\* the instants of the requests that come through the middleware
HttpInstants == {0, 2000000}

\* what a call to the store raises: an error the store answers with
\* (botocore.exceptions.ClientError) or the failure to reach it
StoreErrors == {"ClientError", "EndpointConnectionError"}

\* the at-th call to the store of a method raises exc; at = 0: none does
NoFault == [at |-> 0, exc |-> "none"]
Faults == {NoFault} \cup [at : 1..MaxFaultAt, exc : StoreErrors]

\* spans as the runs with failing calls save them
FaultSpanFields == {<<>>, [tokens_input |-> 5, cost_usd |-> 3]}

\* the payloads clients send: empty, small, one long string, a long string
\* beside a long list, a list too long for the ceiling, a key longer than the
\* ceiling, values that are not strings, and one that has the key _truncated
Payloads ==
    {<<>>,
     [a |-> <<"str", 5, "client">>],
     [a |-> <<"str", 1001, "client">>],
     [a |-> <<"str", 11000, "client">>],
     [a |-> <<"list", 48, 1000>>, b |-> <<"str", 5000, "client">>, c |-> <<"str", 750, "client">>],
     [a |-> <<"list", 60, 1000>>, b |-> <<"str", 5, "client">>],
     [K |-> <<"str", 1, "client">>],
     [a |-> <<"int", 12>>, b |-> <<"bool">>],
     [_truncated |-> <<"str", 2, "client">>]}

\* the bodies of POST /api/traces/{trace_id}/spans: without parent_span_id, or
\* with the id of a span the service may have issued (0 is never issued)
SpanCreateBodies ==
    {<<>>} \cup {[parent_span_id |-> q] : q \in 0..MaxTreeSpans}

\* the traces that get spans in the runs that ask for the totals, and the
\* tokens and cost (in units of 0.00001 USD) of those spans
StatsSpanTraces == {1, 3}
StatsSpanBodies == {[tokens_input |-> 5, cost_usd |-> 3], [tokens_output |-> 2, cost_usd |-> 30]}

\* the api_key argument of TracerClient(...) ({}: none given and none in the
\* environment) and the value of TRACING_ENABLED
ApiKeyArgs == {{}, {<<"project-", "a">>}, {<<"sk-", "a">>}}
TracingEnabled == {"true", "false"}

\* what a request of the client library meets: an answer 2xx, an answer 2xx
\* whose body lacks the identifier, an answer 5xx, or no answer
HttpOutcomes == {"2xx", "2xx without id", "5xx", "ConnectError", "ReadTimeout"}

\* what the body of a scope raises: errors, and exceptions that are not
\* subclasses of Exception
BodyRaises ==
    {[type |-> "ValueError", args |-> "Purposefully meant to fail here."],
     [type |-> "RuntimeError", args |-> ""],
     [type |-> "CancelledError", args |-> ""]}

\* the callers of the listing walks
ListKeys == {<<"project-", "a">>, <<"project-", "b">>}

\* instants, in microseconds after the start of a retention period, at which
\* the model reads the clock
ClockInstants == {0, 500, 1001000}

\* instants of the clock for the runs that do not look at durations
CoarseInstants == {0, 500}

\* cursors that no listing issued: the empty string, text that is not base64,
\* and base64 of text that is not JSON
BadCursors == {<<>>, <<"%%%">>, <<"base64", <<"{not json">>>>}

\* payload mappings: one key, holding a string or a number
d1 == [result |-> <<"str", "ok">>]
d2 == [result |-> <<"num", 7>>]

\* the output of a trace completion: None, empty, or a text
Outputs == {{}, {""}, {"o1"}, {"o2"}}

\* the optional fields of a span at creation
SpanFields == {<<>>, [output_data |-> d2]}

\* the optional arguments of a span completion that are not None
CompleteArgs ==
    {<<>>, [output_data |-> d1], [output_data |-> d2], [error |-> "e1"],
     [tokens_input |-> 0, tokens_output |-> 3],
     [output_data |-> d1, error |-> "e1", tokens_input |-> 5, tokens_output |-> 3]}

(* Program constants *)

TtlDays == 90
MAX_METADATA_SIZE == 10000
MAX_INPUT_OUTPUT_SIZE == 50000
max_str_len == 1000
MicrosPerSecond == 1000000

----------------------------------------------------------------------------
(* Time *)

\* datetime.isoformat(): the fraction is printed only when microsecond # 0
isoformat(t) == IF t.us = 0 THEN <<t.sec>> ELSE <<t.sec, t.us>>

\* datetime.fromisoformat() of a string written by isoformat()
fromisoformat(s) == [sec |-> s[1], us |-> IF Len(s) = 2 THEN s[2] ELSE 0]

\* string order of two isoformat() strings of the same offset: the date and
\* time part has a fixed width; then "+00:00" sorts before ".ffffff+00:00"
IsoStringLess(a, b) ==
    \/ a[1] < b[1]
    \/ /\ a[1] = b[1]
       /\ \/ Len(a) < Len(b)
          \/ Len(a) = 2 /\ Len(b) = 2 /\ a[2] < b[2]

\* (end_time - start_time) as a timedelta, in microseconds
DeltaMicros(end, start) ==
    (end.sec - start.sec) * MicrosPerSecond + (end.us - start.us)

\* the elapsed microseconds d, within the range of ClockInstants, for which the
\* IEEE double product (d / 10^6) * 1000.0 falls just below the integer d / 1000
\* (CPython: timedelta(microseconds=1001000).total_seconds() * 1000 is
\* 1000.9999999999999)
FloatProductBelow == {1001000}

\* int(timedelta.total_seconds() * 1000) for a non-negative timedelta
total_seconds_ms(d) ==
    IF d \in FloatProductBelow THEN (d \div 1000) - 1 ELSE d \div 1000

\* the exact value: floor of the elapsed time in milliseconds
FloorMs(d) == d \div 1000

\* int((end_time - start_time).total_seconds() * 1000); an elapsed time longer
\* than MaxAgeSeconds does not fit the model's integers and is kept as the
\* timedelta itself, in seconds and microseconds
elapsed_ms(end_time, start_time) ==
    IF end_time.sec - start_time.sec <= MaxAgeSeconds
    THEN total_seconds_ms(DeltaMicros(end_time, start_time))
    ELSE <<"timedelta", end_time.sec - start_time.sec, end_time.us - start_time.us>>

----------------------------------------------------------------------------
(* The key-value store *)

put_item(tbl, key, item) ==
    [k \in DOMAIN tbl \cup {key} |-> IF k = key THEN item ELSE tbl[k]]

\* faulty variant of update_item: the optional attributes that the expression
\* does not name are dropped
update_item_dropping_unset(tbl, keyName, key, sets) ==
    LET old == IF key \in DOMAIN tbl THEN tbl[key] ELSE (keyName :> key)
        kept == DOMAIN old \cap {keyName, "trace_id", "project_id", "start_time", "ttl"}
    IN  put_item(tbl, key, sets @@ [a \in kept |-> old[a]])

\* update_item with a SET expression: the named attributes are written, the
\* others are kept; an absent key is created with the key attribute alone
update_item(tbl, keyName, key, sets) ==
    LET old == IF key \in DOMAIN tbl THEN tbl[key] ELSE (keyName :> key)
    IN  put_item(tbl, key, sets @@ old)

delete_item(tbl, key) == [k \in DOMAIN tbl \ {key} |-> tbl[k]]

pop_ttl(item) == [a \in DOMAIN item \ {"ttl"} |-> item[a]]

\* time.time() as whole seconds
EpochSeconds(t) == t.sec

_add_ttl(item, t) == item @@ ("ttl" :> (EpochSeconds(t) + TtlDays * 24 * 60 * 60))

\* the position of an item in project-time-index: the index key and the table key
IndexKey(item) ==
    [trace_id |-> item["trace_id"], project_id |-> item["project_id"],
     start_time |-> item["start_time"]]

\* the store's own order of the table keys (uuid4 strings): it does not follow
\* the order of creation
StoreOrder(trace_id) == (trace_id * 2) % 7

\* a comes before b in the descending scan of project-time-index
\* (ScanIndexForward = False); equal sort keys are told apart by the table key
ScanBefore(a, b) ==
    \/ IsoStringLess(b["start_time"], a["start_time"])
    \/ /\ a["start_time"] = b["start_time"]
       /\ StoreOrder(a["trace_id"]) > StoreOrder(b["trace_id"])

RECURSIVE ScanOrder(_)
ScanOrder(S) ==
    IF S = {} THEN <<>>
    ELSE LET first == CHOOSE x \in S : \A y \in S \ {x} : ScanBefore(x, y)
         IN  <<first>> \o ScanOrder(S \ {first})

\* faulty variant of the query: ExclusiveStartKey is ignored
query_ignoring_start_key(tbl, project_id, limit, start_key) ==
    LET partition == {tbl[k] : k \in {x \in DOMAIN tbl :
                          /\ {"project_id", "start_time"} \subseteq DOMAIN tbl[x]
                          /\ tbl[x]["project_id"] = project_id}}
        scan == ScanOrder(partition)
        n == IF Len(scan) < limit THEN Len(scan) ELSE limit
    IN  [error |-> FALSE,
         Items |-> SubSeq(scan, 1, n),
         LastEvaluatedKey |-> IF Len(scan) >= limit THEN {IndexKey(scan[limit])} ELSE {}]

\* query on project-time-index with a key condition on project_id, a Limit and
\* an optional ExclusiveStartKey: the page, the LastEvaluatedKey ({} when the
\* scan ran off the end of the partition) and whether the store refused the
\* start key
query_project_time_index(tbl, project_id, limit, start_key) ==
    LET partition == {tbl[k] : k \in {x \in DOMAIN tbl :
                          /\ {"project_id", "start_time"} \subseteq DOMAIN tbl[x]
                          /\ tbl[x]["project_id"] = project_id}}
        rest == IF start_key = {} THEN partition
                ELSE {i \in partition : ScanBefore(CHOOSE k \in start_key : TRUE, i)}
        scan == ScanOrder(rest)
        n == IF Len(scan) < limit THEN Len(scan) ELSE limit
    IN  IF start_key # {} /\ (CHOOSE k \in start_key : TRUE)["project_id"] # project_id
        THEN [error |-> TRUE, Items |-> <<>>, LastEvaluatedKey |-> {}]
        ELSE [error |-> FALSE,
              Items |-> SubSeq(scan, 1, n),
              LastEvaluatedKey |-> IF Len(scan) >= limit THEN {IndexKey(scan[limit])} ELSE {}]

\* str() of a small number
DigitString(n) == <<"0", "1", "2", "3", "4", "5", "6", "7", "8", "9">>[n + 1]

\* every value of a payload mapping coerced to a string
stringify_for_dynamodb(d) ==
    [k \in DOMAIN d |-> IF d[k][1] = "num" THEN <<"str", DigitString(d[k][2])>> ELSE d[k]]

----------------------------------------------------------------------------
(* auth.py *)

\* the project of a key "project-<project_id>"; {} stands for the HTTP 400
extract_project_id(key) ==
    IF Len(key) >= 1 /\ key[1] = "project-" /\ Len(key) = 2
    THEN {key[2]}
    ELSE {}

\* os.getenv(name, default)
getenv(env, name, default) == IF name \in DOMAIN env THEN env[name] ELSE default

\* str.lower() of the values given to API_KEY_REQUIRED
lower(s) == IF s = "True" THEN "true" ELSE s

\* str.split(","): a comma-separated value is held as the sequence of its
\* parts, the empty string as <<>>; "".split(",") is [""]
split(s) == IF s = <<>> THEN << <<>> >> ELSE s

\* faulty variant of the dependency: the key of the header is taken as it is
get_api_key_unchecked(env, api_key) ==
    [status |-> 200, key |-> IF api_key = {} THEN <<>> ELSE CHOOSE k \in api_key : TRUE]

\* the dependency of every protected endpoint: the key the handler gets, or
\* the HTTPException(401); api_key is the X-API-Key header, {} when missing
get_api_key(env, api_key) ==
    IF lower(getenv(env, "API_KEY_REQUIRED", "false")) # "true"
    THEN [status |-> 200,
          key |-> getenv(env, "DEFAULT_PROJECT_KEY", <<"project-", "public">>)]
    ELSE LET valid_keys == split(getenv(env, "API_KEYS", <<>>))
         IN  IF \/ api_key = {}
                \/ api_key = {<<>>}
                \/ ~ \E i \in 1..Len(valid_keys) : api_key = {valid_keys[i]}
             THEN [status |-> 401, key |-> <<>>]
             ELSE [status |-> 200, key |-> CHOOSE k \in api_key : TRUE]

----------------------------------------------------------------------------
(* models.py *)

\* Trace(...).to_dynamodb_item() of the fields the handlers read back
Trace_to_dynamodb_item(trace_id, project_id, start_time) ==
    [trace_id |-> trace_id, project_id |-> project_id,
     start_time |-> isoformat(start_time)]

\* Span(...).to_dynamodb_item(): model_dump(exclude_none=True) keeps the
\* optional fields that were given; output_data is stringified
Span_to_dynamodb_item(span_id, trace_id, start_time, fields) ==
    LET opt == [f \in DOMAIN fields |->
                   IF f = "output_data" THEN stringify_for_dynamodb(fields[f])
                   ELSE fields[f]]
    IN  opt @@ [span_id |-> span_id, trace_id |-> trace_id,
                start_time |-> isoformat(start_time)]

----------------------------------------------------------------------------
(* models.py: the size guard *)

\* A payload is a function from keys to values. A value is <<"str", n, mark>>, a
\* string of n characters (mark tells a client's string from one the guard or
\* str() made), <<"bool">> for True, <<"int", v>>, or <<"list", k, n>>, a list
\* of k strings of n characters each. No character needs a JSON escape.

\* len(key) of the keys of the model
KeyLength ==
    [a |-> 1, b |-> 1, c |-> 1, K |-> 10001, _truncated |-> 10, _original_size |-> 14]

\* the order of the keys in a dict
KeyOrder == <<"a", "b", "c", "K", "_truncated", "_original_size">>

\* len(str(v)) of a natural number
Digits(v) ==
    IF v < 10 THEN 1 ELSE IF v < 100 THEN 2 ELSE IF v < 1000 THEN 3
    ELSE IF v < 10000 THEN 4 ELSE IF v < 100000 THEN 5 ELSE IF v < 1000000 THEN 6 ELSE 7

\* len(json.dumps(value, default=str))
value_len(v) ==
    IF v[1] = "str" THEN v[2] + 2
    ELSE IF v[1] = "bool" THEN 4
    ELSE IF v[1] = "int" THEN Digits(v[2])
    ELSE 2 + v[2] * (v[3] + 2) + 2 * (v[2] - 1)

RECURSIVE members_len(_, _)
members_len(data, keys) ==
    IF keys = {} THEN 0
    ELSE LET k == CHOOSE x \in keys : TRUE
         IN  KeyLength[k] + 4 + value_len(data[k]) + members_len(data, keys \ {k})

\* len(json.dumps(data, default=str)) of a dict
json_dumps_len(data) ==
    IF DOMAIN data = {} THEN 2
    ELSE 2 + members_len(data, DOMAIN data) + 2 * (Cardinality(DOMAIN data) - 1)

\* str(v)
str_of(v) ==
    IF v[1] = "str" THEN v
    ELSE IF v[1] = "bool" THEN <<"str", 4, "str()">>
    ELSE IF v[1] = "int" THEN <<"str", Digits(v[2]), "str()">>
    ELSE <<"str", value_len(v), "str()">>

stringify_metadata(data) ==
    IF DOMAIN data = {} THEN data
    ELSE [k \in DOMAIN data |-> str_of(data[k])]

\* value[:max_str_len] + "... [truncated, was N chars]" for the long strings,
\* v[:max_str_len] + "..." for the long strings of a list
_truncate_string_values(data) ==
    [k \in DOMAIN data |->
        LET v == data[k]
        IN  IF v[1] = "str" /\ v[2] > max_str_len
            THEN <<"str", max_str_len + 27 + Digits(v[2]), "truncated">>
            ELSE IF v[1] = "list" /\ v[3] > max_str_len
            THEN <<"list", v[2], max_str_len + 3>>
            ELSE v]

\* max(droppable_keys, key=...): the first key of the largest value
largest_key(result, droppable_keys) ==
    LET Before(x, y) == \E i, j \in 1..Len(KeyOrder) :
                            KeyOrder[i] = x /\ KeyOrder[j] = y /\ i < j
    IN  CHOOSE k \in droppable_keys :
            \A o \in droppable_keys \ {k} :
                \/ value_len(result[k]) > value_len(result[o])
                \/ value_len(result[k]) = value_len(result[o]) /\ Before(k, o)

\* the loop of _drop_large_keys goes into another round: the payload does not
\* fit, is not empty, and has a key that was not dropped yet (else: break)
drop_continues(result, dropped_keys, max_size) ==
    /\ json_dumps_len(result) > max_size
    /\ DOMAIN result # {}
    /\ DOMAIN result \ dropped_keys # {}

\* faulty variant of a round: the key is not added to dropped_keys
drop_round_forgetting(result, dropped_keys) ==
    LET k == largest_key(result, DOMAIN result \ dropped_keys)
        dropped_size == value_len(result[k])
    IN  [result |-> [result EXCEPT ![k] = <<"str", 17 + Digits(dropped_size), "dropped">>],
         dropped_keys |-> dropped_keys]

\* one round of the loop: the largest value among the keys not dropped yet is
\* replaced by "[dropped: N bytes]" and its key is added to dropped_keys
drop_round(result, dropped_keys) ==
    LET k == largest_key(result, DOMAIN result \ dropped_keys)
        dropped_size == value_len(result[k])
    IN  [result |-> [result EXCEPT ![k] = <<"str", 17 + Digits(dropped_size), "dropped">>],
         dropped_keys |-> dropped_keys \cup {k}]

\* the loop of _drop_large_keys
RECURSIVE drop_loop(_, _, _)
drop_loop(result, dropped_keys, max_size) ==
    IF ~ drop_continues(result, dropped_keys, max_size) THEN result
    ELSE LET round == drop_round(result, dropped_keys)
         IN  drop_loop(round.result, round.dropped_keys, max_size)

_drop_large_keys(data, max_size) == drop_loop(data, {}, max_size)

\* d[key] = value
set_item(d, key, value) == (key :> value) @@ d

truncate_dict(data, max_size) ==
    IF DOMAIN data = {} THEN data
    ELSE IF json_dumps_len(data) <= max_size THEN data
    ELSE LET truncated == _truncate_string_values(data)
         IN  IF json_dumps_len(truncated) <= max_size
             THEN set_item(truncated, "_truncated", <<"bool">>)
             ELSE set_item(set_item(_drop_large_keys(data, max_size), "_truncated", <<"bool">>),
                           "_original_size", <<"int", json_dumps_len(data)>>)

\* the validator truncate_metadata of TraceCreate, Trace, SpanCreate and Span
truncate_metadata(v) ==
    IF DOMAIN v = {} THEN v
    ELSE truncate_dict(stringify_metadata(v), MAX_METADATA_SIZE)

\* the validator truncate_output_data of SpanCompleteRequest
truncate_output_data(v) ==
    IF DOMAIN v = {} THEN v
    ELSE truncate_dict(v, MAX_INPUT_OUTPUT_SIZE)

----------------------------------------------------------------------------
(* storage_dynamodb.py *)

\* faulty variant of get_trace: the project of the caller is not compared
get_trace_of_any_project(tbl, trace_id, project_id) ==
    IF trace_id \in DOMAIN tbl THEN {pop_ttl(tbl[trace_id])} ELSE {}

\* project_id = "" stands for the default None
DynamoDBStorage_get_trace(tbl, trace_id, project_id) ==
    IF trace_id \notin DOMAIN tbl THEN {}
    ELSE LET item == tbl[trace_id]
         IN  IF /\ project_id # ""
                /\ \/ "project_id" \notin DOMAIN item
                   \/ item["project_id"] # project_id
             THEN {}
             ELSE {pop_ttl(item)}

DynamoDBStorage_save_trace(tbl, trace, t) ==
    put_item(tbl, trace["trace_id"], _add_ttl(trace, t))

\* faulty variant of the SET expression: duration_ms is left out
complete_trace_sets_without_duration(start_time, end_time, output) ==
    [end_time |-> isoformat(end_time)]

\* the attributes the SET expression of complete_trace names
complete_trace_sets(start_time, end_time, output) ==
    LET base == [end_time |-> isoformat(end_time),
                 duration_ms |-> elapsed_ms(end_time, fromisoformat(start_time))]
    IN  IF output # {} /\ output # {""}
        THEN ("output" :> (CHOOSE o \in output : TRUE)) @@ base
        ELSE base

\* the table after complete_trace, and its boolean result
DynamoDBStorage_complete_trace(tbl, trace_id, end_time, output) ==
    LET found == DynamoDBStorage_get_trace(tbl, trace_id, "")
    IN  IF found = {} THEN [ok |-> FALSE, tbl |-> tbl]
        ELSE LET trace == CHOOSE x \in found : TRUE
             IN  [ok  |-> TRUE,
                  tbl |-> update_item(tbl, "trace_id", trace_id,
                              complete_trace_sets(trace["start_time"], end_time, output))]

\* base64.b64encode(json.dumps(last_key).encode()).decode()
encode_cursor(last_key) == <<"base64", <<"json", last_key>>>>

\* json.loads(base64.b64decode(cursor).decode("utf-8")); {} when it raises
decode_cursor(cursor) ==
    IF Len(cursor) = 2 /\ cursor[1] = "base64" /\ Len(cursor[2]) = 2 /\ cursor[2][1] = "json"
    THEN {cursor[2][2]}
    ELSE {}

RECURSIVE SeqMap_pop_ttl(_)
SeqMap_pop_ttl(items) ==
    IF items = <<>> THEN <<>>
    ELSE <<pop_ttl(Head(items))>> \o SeqMap_pop_ttl(Tail(items))

\* faulty variant of get_traces: a cursor that cannot be decoded ends the call
\* like a store error
get_traces_refusing_bad_cursor(tbl, project_id, limit, cursor) ==
    LET start_key == IF cursor = {} THEN {}
                     ELSE decode_cursor(CHOOSE c \in cursor : TRUE)
        response == query_project_time_index(tbl, project_id, limit, start_key)
    IN  IF response.error \/ (cursor # {} /\ start_key = {})
        THEN [items |-> <<>>, next_cursor |-> {}]
        ELSE [items |-> SeqMap_pop_ttl(response.Items),
              next_cursor |-> IF response.LastEvaluatedKey = {} THEN {}
                              ELSE {encode_cursor(CHOOSE k \in response.LastEvaluatedKey : TRUE)}]

\* cursor = {} stands for None
DynamoDBStorage_get_traces(tbl, project_id, limit, cursor) ==
    LET start_key == IF cursor = {} \/ cursor = {<<>>} THEN {}
                     ELSE decode_cursor(CHOOSE c \in cursor : TRUE)
        response == query_project_time_index(tbl, project_id, limit, start_key)
    IN  IF response.error
        THEN [items |-> <<>>, next_cursor |-> {}]
        ELSE [items |-> SeqMap_pop_ttl(response.Items),
              next_cursor |-> IF response.LastEvaluatedKey = {} THEN {}
                              ELSE {encode_cursor(CHOOSE k \in response.LastEvaluatedKey : TRUE)}]

\* the elements of a sequence
Range(seq) == {seq[i] : i \in 1..Len(seq)}

\* the post-query filters: user_id, session_id, then any-tag-matches; a filter
\* that is None, "" or [] is not applied
post_query_filters(items, query) ==
    LET by_user(i) == "user_id" \in DOMAIN i /\ {i["user_id"]} = query.user_id
        by_session(i) == "session_id" \in DOMAIN i /\ {i["session_id"]} = query.session_id
        by_tags(i) == \E tags \in query.tags : \E tag \in Range(tags) :
                          tag \in (IF "tags" \in DOMAIN i THEN Range(i["tags"]) ELSE {})
        u == IF query.user_id \notin {{}, {""}} THEN SelectSeq(items, by_user) ELSE items
        v == IF query.session_id \notin {{}, {""}} THEN SelectSeq(u, by_session) ELSE u
    IN  IF query.tags \notin {{}, {<<>>}} THEN SelectSeq(v, by_tags) ELSE v

\* faulty variant of get_traces with filters: a page that the filters leave
\* empty ends the listing
get_traces_ending_on_empty_page(tbl, query) ==
    LET found == DynamoDBStorage_get_traces(tbl, query.project_id, query.limit, query.cursor)
        items == post_query_filters(found.items, query)
    IN  [items |-> items,
         next_cursor |-> IF items = <<>> THEN {} ELSE found.next_cursor]

\* get_traces(query: TraceQuery): the query on the index, then the filters in
\* memory; next_cursor is the LastEvaluatedKey of the query
DynamoDBStorage_get_traces_query(tbl, query) ==
    LET found == DynamoDBStorage_get_traces(tbl, query.project_id, query.limit, query.cursor)
    IN  [items |-> post_query_filters(found.items, query),
         next_cursor |-> found.next_cursor]

DynamoDBStorage_save_span(tbl, span, t) ==
    put_item(tbl, span["span_id"], _add_ttl(span, t))

DynamoDBStorage_get_span(tbl, span_id) ==
    IF span_id \in DOMAIN tbl THEN {pop_ttl(tbl[span_id])} ELSE {}

\* faulty variant of get_spans: the key condition on trace_id is left out
get_spans_of_every_trace(ttbl, stbl, trace_id, project_id) ==
    IF project_id # "" /\ DynamoDBStorage_get_trace(ttbl, trace_id, project_id) = {}
    THEN {}
    ELSE {pop_ttl(stbl[s]) : s \in DOMAIN stbl}

\* the query on trace-index: the items whose trace_id is the key
DynamoDBStorage_get_spans(ttbl, stbl, trace_id, project_id) ==
    IF project_id # "" /\ DynamoDBStorage_get_trace(ttbl, trace_id, project_id) = {}
    THEN {}
    ELSE {pop_ttl(stbl[s]) : s \in {x \in DOMAIN stbl : stbl[x]["trace_id"] = trace_id}}

\* the parameters of complete_span
complete_span_params ==
    {"span_id", "end_time", "output_data", "error", "tokens_input", "tokens_output"}

\* the attributes the SET expression of complete_span names; args holds the
\* optional arguments that are not None
complete_span_sets(start_time, end_time, args) ==
    args @@ [end_time |-> isoformat(end_time),
             duration_ms |-> elapsed_ms(end_time, fromisoformat(start_time))]

DynamoDBStorage_complete_span(tbl, span_id, end_time, args) ==
    IF span_id \notin DOMAIN tbl THEN [ok |-> FALSE, tbl |-> tbl]
    ELSE [ok  |-> TRUE,
          tbl |-> update_item(tbl, "span_id", span_id,
                      complete_span_sets(tbl[span_id]["start_time"], end_time, args))]

----------------------------------------------------------------------------
(* storage_dynamodb.py: the methods when a call to the store raises *)

\* the totals of get_stats when nothing was read
NoStats == [total_traces |-> 0, total_spans |-> 0, total_tokens |-> 0, total_cost |-> 0]

\* `except ClientError` and `except Exception`
caught(clause, exc) == clause = "Exception" \/ clause = exc

\* the fault as the next method sees it, after n calls to the store
after(fault, n) ==
    IF fault.at > n THEN [fault EXCEPT !.at = fault.at - n] ELSE NoFault

\* what a method gives: the exception that leaves it ({} when it returns), its
\* value, the table it leaves, the calls it made and whether one of them raised
Outcome(raised, value, tbl, calls, erred) ==
    [raised |-> raised, value |-> value, tbl |-> tbl, calls |-> calls, erred |-> erred]

\* the except clause of a method at a call that raised
Except(clause, fault, degraded, tbl, calls) ==
    IF caught(clause, fault.exc)
    THEN Outcome({}, degraded, tbl, calls, TRUE)
    ELSE Outcome({fault.exc}, degraded, tbl, calls, TRUE)

get_trace_on(fault, tbl, trace_id, project_id) ==
    IF fault.at = 1
    THEN Except("ClientError", fault, {}, tbl, 1)
    ELSE Outcome({}, DynamoDBStorage_get_trace(tbl, trace_id, project_id), tbl, 1, FALSE)

get_span_on(fault, tbl, span_id) ==
    IF fault.at = 1
    THEN Except("ClientError", fault, {}, tbl, 1)
    ELSE Outcome({}, DynamoDBStorage_get_span(tbl, span_id), tbl, 1, FALSE)

get_traces_on(fault, tbl, project_id, limit, cursor) ==
    IF fault.at = 1
    THEN Except("ClientError", fault, [items |-> <<>>, next_cursor |-> {}], tbl, 1)
    ELSE Outcome({}, DynamoDBStorage_get_traces(tbl, project_id, limit, cursor), tbl, 1, FALSE)

\* get_spans: get_trace when a project is given, then the query on trace-index
get_spans_on(fault, ttbl, stbl, trace_id, project_id) ==
    LET trace == IF project_id # "" THEN get_trace_on(fault, ttbl, trace_id, project_id)
                 ELSE Outcome({}, {}, ttbl, 0, FALSE)
        rest == after(fault, trace.calls)
    IN  IF trace.raised # {}
        THEN Except("ClientError", fault, {}, stbl, trace.calls)
        ELSE IF project_id # "" /\ trace.value = {}
        THEN Outcome({}, {}, stbl, trace.calls, trace.erred)
        ELSE IF rest.at = 1
        THEN Except("ClientError", rest, {}, stbl, trace.calls + 1)
        ELSE Outcome({}, DynamoDBStorage_get_spans(ttbl, stbl, trace_id, ""), stbl,
                     trace.calls + 1, trace.erred)

\* complete_trace: get_trace, then update_item
complete_trace_on(fault, tbl, trace_id, end_time, output) ==
    LET trace == get_trace_on(fault, tbl, trace_id, "")
        rest == after(fault, trace.calls)
    IN  IF trace.raised # {}
        THEN Except("Exception", fault, FALSE, tbl, trace.calls)
        ELSE IF trace.value = {}
        THEN Outcome({}, FALSE, tbl, trace.calls, trace.erred)
        ELSE IF rest.at = 1
        THEN Except("Exception", rest, FALSE, tbl, trace.calls + 1)
        ELSE Outcome({}, TRUE,
                     DynamoDBStorage_complete_trace(tbl, trace_id, end_time, output).tbl,
                     trace.calls + 1, trace.erred)

\* complete_span: get_item, then update_item
complete_span_on(fault, tbl, span_id, end_time, args) ==
    IF fault.at = 1
    THEN Except("ClientError", fault, FALSE, tbl, 1)
    ELSE IF span_id \notin DOMAIN tbl
    THEN Outcome({}, FALSE, tbl, 1, FALSE)
    ELSE IF fault.at = 2
    THEN Except("ClientError", fault, FALSE, tbl, 2)
    ELSE Outcome({}, TRUE, DynamoDBStorage_complete_span(tbl, span_id, end_time, args).tbl,
                 2, FALSE)

\* (span.get(name) or 0)
get_or_0(span, name) == IF name \in DOMAIN span THEN span[name] ELSE 0

RECURSIVE SumOver(_, _)
SumOver(S, name) ==
    IF S = {} THEN 0
    ELSE LET x == CHOOSE y \in S : TRUE
         IN  get_or_0(x, name) + SumOver(S \ {x}, name)

\* the loop of get_stats over the recent traces, from the i-th on: the totals so
\* far, or the exception that left get_spans
RECURSIVE stats_loop(_, _, _, _, _, _)
stats_loop(fault, ttbl, stbl, recent, i, acc) ==
    IF i > Len(recent) THEN acc
    ELSE LET found == get_spans_on(fault, ttbl, stbl, recent[i]["trace_id"], "")
         IN  IF found.raised # {}
             THEN [acc EXCEPT !.raised = found.raised, !.erred = TRUE]
             ELSE stats_loop(after(fault, found.calls), ttbl, stbl, recent, i + 1,
                     [acc EXCEPT
                        !.value = [@ EXCEPT
                            !.total_spans = @ + Cardinality(found.value),
                            !.total_tokens = @ + SumOver(found.value, "tokens_input")
                                               + SumOver(found.value, "tokens_output"),
                            !.total_cost = @ + SumOver(found.value, "cost_usd")],
                        !.erred = @ \/ found.erred])

\* round(total_cost, 4), for a cost in units of 0.00001: the nearest multiple
\* of 0.0001 (for the ties below 0.002 CPython gives the upper one)
round4(cost) == ((cost + 5) \div 10) * 10

\* get_stats: the COUNT query on project-time-index, get_traces for the 50 most
\* recent traces, get_spans for each of them; cost is in units of 0.00001
get_stats_on(fault, ttbl, stbl, project_id) ==
    IF fault.at = 1
    THEN Except("ClientError", fault, NoStats, ttbl, 1)
    ELSE LET Count == Cardinality({t \in DOMAIN ttbl : ttbl[t]["project_id"] = project_id})
             recent == get_traces_on(after(fault, 1), ttbl, project_id, 50, {})
         IN  IF recent.raised # {}
             THEN Except("ClientError", after(fault, 1), NoStats, ttbl, 2)
             ELSE LET sums == stats_loop(after(fault, 2), ttbl, stbl, recent.value.items, 1,
                                  Outcome({}, [NoStats EXCEPT !.total_traces = Count],
                                          ttbl, 0, recent.erred))
                  IN  IF sums.raised # {}
                      THEN Except("ClientError",
                                  [at |-> 1, exc |-> CHOOSE x \in sums.raised : TRUE],
                                  NoStats, ttbl, 0)
                      ELSE [sums EXCEPT !.value.total_cost = round4(@)]

----------------------------------------------------------------------------
(* server.py *)

\* a request and its answer: the handler, the X-API-Key, the id in the path, the
\* body or query, the HTTP status, and of the response body the id of a created
\* record, the traces (in order), the spans with span_count, and the cursor
\* with has_more and count; for a direct call of
\* a storage method, its name, its arguments and its boolean result, the totals
\* of get_stats, the exception that left the method or was raised in the
\* handler ({} when none), whether a call to the store raised during the
\* method, and the JSON body of an error response
NoResp == [op |-> "none", key |-> <<>>, id |-> 0, req |-> <<>>, status |-> 0,
           created |-> 0, traces |-> <<>>, spans |-> {}, span_count |-> 0,
           next_cursor |-> {}, has_more |-> FALSE, count |-> 0, result |-> FALSE,
           stats |-> NoStats, raised |-> {}, erred |-> FALSE, json |-> <<>>]

Response(op, key, id, req, status) ==
    [op |-> op, key |-> key, id |-> id, req |-> req, status |-> status,
     created |-> 0, traces |-> <<>>, spans |-> {}, span_count |-> 0,
     next_cursor |-> {}, has_more |-> FALSE, count |-> 0, result |-> FALSE,
     stats |-> NoStats, raised |-> {}, erred |-> FALSE, json |-> <<>>]

\* HTTPException(status_code, detail), and an exception of another type with
\* its message
HTTPException(status_code, detail) ==
    [type |-> "HTTPException", status_code |-> status_code, detail |-> detail]

Error(type, message) == [type |-> type, args |-> message]

\* str(e)
str(e) == e.args

\* faulty variant of the except clauses: `except HTTPException: raise` is missing
handler_except_wrapping_all(e) ==
    HTTPException(500, IF e.type = "HTTPException" THEN e.detail ELSE str(e))

\* the except clauses of every handler: the exception that leaves the handler
handler_except(e) ==
    IF e.type = "HTTPException" THEN e
    ELSE HTTPException(500, str(e))

\* the answer to a request whose handler body raised e: the status_code of the
\* HTTPException that leaves the handler, with the body {"detail": detail}
Answer(response, e) ==
    LET out == handler_except(e)
    IN  [response EXCEPT !.status = out.status_code,
                         !.json = [detail |-> out.detail],
                         !.raised = {e}]

\* faulty variant of the security check: the body's project is trusted
project_id_never_mismatch(body_project_id, api_project_id) == FALSE

\* the security check of create_trace
project_id_mismatch(body_project_id, api_project_id) ==
    body_project_id # api_project_id

create_trace(key, body_project_id, cap) ==
    LET api == extract_project_id(key)
        req == [project_id |-> body_project_id]
    IN  /\ nextTraceId <= cap
        /\ IF api = {}
           THEN /\ resp' = Response("create_trace", key, 0, req, 400)
                /\ UNCHANGED <<traces, nextTraceId>>
           ELSE LET api_project_id == CHOOSE p \in api : TRUE
                IN  IF project_id_mismatch(body_project_id, api_project_id)
                    THEN /\ resp' = Response("create_trace", key, 0, req, 403)
                         /\ UNCHANGED <<traces, nextTraceId>>
                    ELSE /\ traces' = DynamoDBStorage_save_trace(traces,
                                 Trace_to_dynamodb_item(nextTraceId, api_project_id, now), now)
                         /\ nextTraceId' = nextTraceId + 1
                         /\ resp' = [Response("create_trace", key, 0, req, 200)
                                       EXCEPT !.created = nextTraceId]
        /\ UNCHANGED <<spans, now, nextSpanId, walk, posted>>

create_span(key, trace_id, body, cap) ==
    LET api == extract_project_id(key)
    IN  /\ nextSpanId <= cap
        /\ IF api = {}
           THEN /\ resp' = Response("create_span", key, trace_id, body, 400)
                /\ UNCHANGED <<spans, nextSpanId>>
           ELSE LET api_project_id == CHOOSE p \in api : TRUE
                    trace == DynamoDBStorage_get_trace(traces, trace_id, api_project_id)
                IN  IF trace = {}
                    THEN /\ resp' = Response("create_span", key, trace_id, body, 404)
                         /\ UNCHANGED <<spans, nextSpanId>>
                    ELSE \* output_data = span.output_data or {}
                         /\ spans' = DynamoDBStorage_save_span(spans,
                                 Span_to_dynamodb_item(nextSpanId, trace_id, now,
                                     body @@ ("output_data" :> <<>>)), now)
                         /\ nextSpanId' = nextSpanId + 1
                         /\ resp' = [Response("create_span", key, trace_id, body, 200)
                                       EXCEPT !.created = nextSpanId]
        /\ posted' = IF resp'.status = 200 THEN posted @@ (nextSpanId :> trace_id) ELSE posted
        /\ UNCHANGED <<traces, now, nextTraceId, walk>>

\* the keyword arguments of the call storage.complete_span(...) in the handler
complete_span_call_kwargs ==
    {"span_id", "end_time", "output_data", "error", "tokens_input", "tokens_output",
     "cost_usd"}

\* the optional arguments of the call that are not None
complete_span_call_args(body) ==
    [f \in DOMAIN body \cap complete_span_params |-> body[f]]

complete_span(key, span_id, body) ==
    LET api == extract_project_id(key)
    IN  /\ IF api = {}
           THEN /\ resp' = Response("complete_span", key, span_id, body, 400)
                /\ UNCHANGED spans
           ELSE LET api_project_id == CHOOSE p \in api : TRUE
                    span == DynamoDBStorage_get_span(spans, span_id)
                IN  IF span = {}
                    THEN /\ resp' = Response("complete_span", key, span_id, body, 404)
                         /\ UNCHANGED spans
                    ELSE LET s == CHOOSE x \in span : TRUE
                             trace == DynamoDBStorage_get_trace(traces, s["trace_id"], api_project_id)
                         IN  IF trace = {}
                             THEN /\ resp' = Response("complete_span", key, span_id, body, 403)
                                  /\ UNCHANGED spans
                             ELSE IF ~ (complete_span_call_kwargs \subseteq complete_span_params)
                                  THEN \* TypeError: unexpected keyword argument
                                       /\ resp' = Answer(Response("complete_span", key, span_id, body, 0),
                                                      Error("TypeError", "unexpected keyword argument"))
                                       /\ UNCHANGED spans
                                  ELSE /\ spans' = DynamoDBStorage_complete_span(spans, span_id, now,
                                                       complete_span_call_args(body)).tbl
                                       /\ resp' = Response("complete_span", key, span_id, body, 200)
        /\ UNCHANGED <<traces, now, nextTraceId, nextSpanId, walk, posted>>

complete_trace(key, trace_id, output) ==
    LET api == extract_project_id(key)
        req == [output |-> output]
    IN  /\ IF api = {}
           THEN /\ resp' = Response("complete_trace", key, trace_id, req, 400)
                /\ UNCHANGED traces
           ELSE LET api_project_id == CHOOSE p \in api : TRUE
                    trace == DynamoDBStorage_get_trace(traces, trace_id, api_project_id)
                IN  IF trace = {}
                    THEN /\ resp' = Response("complete_trace", key, trace_id, req, 404)
                         /\ UNCHANGED traces
                    ELSE /\ traces' = DynamoDBStorage_complete_trace(traces, trace_id, now, output).tbl
                         /\ resp' = Response("complete_trace", key, trace_id, req, 200)
        /\ UNCHANGED <<spans, now, nextTraceId, nextSpanId, walk, posted>>

get_trace(key, trace_id) ==
    LET api == extract_project_id(key)
    IN  /\ IF api = {}
           THEN resp' = Response("get_trace", key, trace_id, <<>>, 400)
           ELSE LET api_project_id == CHOOSE p \in api : TRUE
                    trace == DynamoDBStorage_get_trace(traces, trace_id, api_project_id)
                IN  IF trace = {}
                    THEN resp' = Response("get_trace", key, trace_id, <<>>, 404)
                    ELSE LET found == DynamoDBStorage_get_spans(traces, spans,
                                                  trace_id, api_project_id)
                         IN  resp' = [Response("get_trace", key, trace_id, <<>>, 200)
                                      EXCEPT !.traces = <<CHOOSE x \in trace : TRUE>>,
                                             !.spans = found,
                                             !.span_count = Cardinality(found)]
        /\ UNCHANGED <<traces, spans, now, nextTraceId, nextSpanId, walk, posted>>

get_stats(key) ==
    LET api == extract_project_id(key)
    IN  /\ IF api = {}
           THEN resp' = Response("get_stats", key, 0, <<>>, 400)
           ELSE LET api_project_id == CHOOSE p \in api : TRUE
                IN  resp' = [Response("get_stats", key, 0, <<>>, 200)
                             EXCEPT !.stats = get_stats_on(NoFault, traces, spans,
                                                           api_project_id).value]
        /\ UNCHANGED <<traces, spans, now, nextTraceId, nextSpanId, walk, posted>>

\* faulty variant of has_more: always set
has_more_always(next_cursor) == TRUE

\* has_more of TraceListResponse: next_cursor is not None
has_more(next_cursor) == next_cursor # {}

get_traces(key, limit, cursor) ==
    LET api == extract_project_id(key)
        req == [limit |-> limit, cursor |-> cursor]
    IN  /\ IF api = {}
           THEN resp' = Response("get_traces", key, 0, req, 400)
           ELSE LET api_project_id == CHOOSE p \in api : TRUE
                    result == DynamoDBStorage_get_traces(traces, api_project_id, limit, cursor)
                IN  resp' = [Response("get_traces", key, 0, req, 200)
                             EXCEPT !.traces = result.items,
                                    !.next_cursor = result.next_cursor,
                                    !.has_more = has_more(result.next_cursor),
                                    !.count = Len(result.items)]
        /\ UNCHANGED <<traces, spans, now, nextTraceId, nextSpanId, posted>>

----------------------------------------------------------------------------
(* rate_limit.py *)

\* time.time(): seconds as a float, here in microseconds
time_time(t) == t.sec * MicrosPerSecond + t.us

\* faulty variant of the comparison with the limit: one request too many passes
over_limit_by_one(n) == n > requests_per_minute

\* len(self.requests[client_ip]) >= self.rpm
over_limit(n) == n >= requests_per_minute

\* RateLimiter.check_rate_limit: whether it raises HTTPException(429), and the
\* map it leaves
RateLimiter_check_rate_limit(reqs, client_ip, current_time) ==
    LET kept == SelectSeq(reqs[client_ip],
                    LAMBDA req_time : current_time - req_time < window_seconds * MicrosPerSecond)
        raised == over_limit(Len(kept))
    IN  [raised   |-> raised,
         requests |-> [reqs EXCEPT ![client_ip] = IF raised THEN kept
                                                  ELSE Append(kept, current_time)]]

\* the limiter called directly, as tests/unit/test_rate_limit.py does
check_rate_limit(client_ip) ==
    LET r == RateLimiter_check_rate_limit(requests, client_ip, time_time(now))
    IN  /\ requests' = r.requests
        /\ accepted' = IF r.raised THEN accepted
                       ELSE [accepted EXCEPT ![client_ip] = Append(@, time_time(now))]
        /\ resp' = [Response("check_rate_limit", <<>>, 0, [ip |-> client_ip],
                             IF r.raised THEN 429 ELSE 0)
                    EXCEPT !.result = ~ r.raised]
        /\ UNCHANGED <<traces, spans, now, nextTraceId, nextSpanId, walk, posted, inflight, environ, outside>>

----------------------------------------------------------------------------
(* server.py: the middleware in front of the routes *)

\* the status the client gets when the function registered with
\* @app.middleware("http") raises: the exception handlers that turn an
\* HTTPException into its status_code wrap the routes, inside the middleware,
\* so the exception leaves the application and the server answers 500
middleware_exception_status(status_code) == 500

\* rate_limit_middleware up to call_next: the limiter, then the request goes
\* on to its route
rate_limit_middleware(r) ==
    LET c == RateLimiter_check_rate_limit(requests, r.ip, time_time(now))
    IN  /\ Cardinality(inflight) < MaxInflight
        /\ r \notin inflight
        /\ r.op = "create_trace" => nextTraceId <= MaxHttpTraces
        /\ r.op = "create_span" => nextSpanId <= MaxHttpSpans
        /\ requests' = c.requests
        /\ IF c.raised
           THEN /\ resp' = Response("rate_limit_middleware", <<>>, 0, r,
                                    middleware_exception_status(429))
                /\ UNCHANGED <<inflight, accepted>>
           ELSE /\ inflight' = inflight \cup {r}
                /\ accepted' = [accepted EXCEPT ![r.ip] = Append(@, time_time(now))]
                /\ resp' = NoResp
        /\ UNCHANGED <<traces, spans, now, nextTraceId, nextSpanId, walk, posted, environ, outside>>

\* call_next: the route of the request, its dependency get_api_key first
call_next(r) ==
    /\ r \in inflight
    /\ inflight' = inflight \ {r}
    /\ UNCHANGED <<requests, accepted, environ, outside>>
    /\ LET auth == get_api_key(environ, r.header)
       IN  IF auth.status = 401
           THEN /\ resp' = Response(r.op, <<>>, r.id, r.body, 401)
                /\ UNCHANGED <<traces, spans, now, nextTraceId, nextSpanId, walk, posted>>
           ELSE \/ /\ r.op = "create_trace"
                   /\ create_trace(auth.key, r.body["project_id"], MaxHttpTraces)
                \/ /\ r.op = "create_span"
                   /\ create_span(auth.key, r.id, r.body, MaxHttpSpans)
                \/ /\ r.op = "complete_span"
                   /\ complete_span(auth.key, r.id, r.body)
                \/ /\ r.op = "complete_trace"
                   /\ complete_trace(auth.key, r.id, r.body["output"])
                \/ /\ r.op = "get_trace"
                   /\ get_trace(auth.key, r.id)
                \/ /\ r.op = "get_traces"
                   /\ get_traces(auth.key, r.body["limit"], r.body["cursor"])
                   /\ UNCHANGED walk
                \/ /\ r.op = "get_stats"
                   /\ get_stats(auth.key)

\* what a storage method raises into a handler: the exceptions of the tests
\* and the failures of the store
Raisable ==
    {Error("RuntimeError", "Simulated database connection failure"),
     Error("Exception", ""),
     Error("ClientError", "An error occurred (ThrottlingException)"),
     HTTPException(503, "Service Unavailable")}

\* the route of a request when the first storage method its handler calls
\* raises e (the store fails, or the method is patched as in the tests); the
\* checks that come before that call in the handler raise first
call_next_raising(r, e) ==
    /\ r \in inflight
    /\ inflight' = inflight \ {r}
    /\ LET auth == get_api_key(environ, r.header)
           api == extract_project_id(auth.key)
           response == Response(r.op, auth.key, r.id, r.body, 0)
       IN  IF auth.status = 401
           THEN resp' = Response(r.op, <<>>, r.id, r.body, 401)
           ELSE IF api = {}
           THEN resp' = Answer(response, HTTPException(400, "Invalid API key format"))
           ELSE IF /\ r.op = "create_trace"
                   /\ project_id_mismatch(r.body["project_id"], CHOOSE p \in api : TRUE)
           THEN resp' = Answer(response, HTTPException(403, "Project ID mismatch"))
           ELSE resp' = Answer(response, e)
    /\ UNCHANGED <<traces, spans, now, nextTraceId, nextSpanId, walk, posted,
                   requests, accepted, environ, outside>>

\* the environment of the process is set anew (monkeypatch.setenv)
setenv(env) ==
    /\ env # environ
    /\ environ' = env
    /\ resp' = NoResp
    /\ UNCHANGED <<traces, spans, now, nextTraceId, nextSpanId, walk, posted,
                   requests, inflight, accepted, outside>>

----------------------------------------------------------------------------
(* The storage engine called directly, as tests/unit/test_storage_dynamodb.py does *)

StorageCall(op, id, req, result) ==
    [Response(op, <<>>, id, req, 0) EXCEPT !.result = result]

CallSaveTrace(project_id, cap) ==
    /\ nextTraceId <= cap
    /\ traces' = DynamoDBStorage_save_trace(traces,
                     Trace_to_dynamodb_item(nextTraceId, project_id, now), now)
    /\ nextTraceId' = nextTraceId + 1
    /\ resp' = [StorageCall("DynamoDBStorage.save_trace", 0,
                            [project_id |-> project_id], TRUE)
                EXCEPT !.created = nextTraceId]
    /\ UNCHANGED <<spans, now, nextSpanId, walk, posted,
                   requests, inflight, accepted, environ, outside>>

CallCompleteTrace(trace_id, output) ==
    LET r == DynamoDBStorage_complete_trace(traces, trace_id, now, output)
    IN  /\ traces' = r.tbl
        /\ resp' = StorageCall("DynamoDBStorage.complete_trace", trace_id,
                               [output |-> output], r.ok)
        /\ UNCHANGED <<spans, now, nextTraceId, nextSpanId, walk, posted,
                       requests, inflight, accepted, environ, outside>>

CallSaveSpan(trace_id, fields, cap) ==
    /\ nextSpanId <= cap
    /\ spans' = DynamoDBStorage_save_span(spans,
                    Span_to_dynamodb_item(nextSpanId, trace_id, now, fields), now)
    /\ nextSpanId' = nextSpanId + 1
    /\ resp' = [StorageCall("DynamoDBStorage.save_span", trace_id, fields, TRUE)
                EXCEPT !.created = nextSpanId]
    /\ UNCHANGED <<traces, now, nextTraceId, walk, posted,
                   requests, inflight, accepted, environ, outside>>

CallCompleteSpan(span_id, args) ==
    LET r == DynamoDBStorage_complete_span(spans, span_id, now, args)
    IN  /\ spans' = r.tbl
        /\ resp' = StorageCall("DynamoDBStorage.complete_span", span_id, args, r.ok)
        /\ UNCHANGED <<traces, now, nextTraceId, nextSpanId, walk, posted,
                       requests, inflight, accepted, environ, outside>>

\* a storage method called while one of its calls to the store may raise
FaultyCall(op, id, req, fault, out) ==
    [StorageCall(op, id, req @@ [fault |-> fault], FALSE)
        EXCEPT !.raised = out.raised, !.erred = out.erred]

CallGetTraceOn(fault, trace_id, project_id) ==
    LET out == get_trace_on(fault, traces, trace_id, project_id)
    IN  /\ resp' = [FaultyCall("DynamoDBStorage.get_trace", trace_id,
                               [project_id |-> project_id], fault, out)
                    EXCEPT !.traces = IF out.value = {} THEN <<>>
                                      ELSE <<CHOOSE x \in out.value : TRUE>>]
        /\ UNCHANGED <<traces, spans, now, nextTraceId, nextSpanId, walk, posted,
                       requests, inflight, accepted, environ, outside>>

CallGetSpanOn(fault, span_id) ==
    LET out == get_span_on(fault, spans, span_id)
    IN  /\ resp' = [FaultyCall("DynamoDBStorage.get_span", span_id, <<>>, fault, out)
                    EXCEPT !.spans = out.value]
        /\ UNCHANGED <<traces, spans, now, nextTraceId, nextSpanId, walk, posted,
                       requests, inflight, accepted, environ, outside>>

CallGetTracesOn(fault, project_id, limit) ==
    LET out == get_traces_on(fault, traces, project_id, limit, {})
    IN  /\ resp' = [FaultyCall("DynamoDBStorage.get_traces", 0,
                               [project_id |-> project_id, limit |-> limit], fault, out)
                    EXCEPT !.traces = out.value.items,
                           !.next_cursor = out.value.next_cursor]
        /\ UNCHANGED <<traces, spans, now, nextTraceId, nextSpanId, walk, posted,
                       requests, inflight, accepted, environ, outside>>

CallGetSpansOn(fault, trace_id, project_id) ==
    LET out == get_spans_on(fault, traces, spans, trace_id, project_id)
    IN  /\ resp' = [FaultyCall("DynamoDBStorage.get_spans", trace_id,
                               [project_id |-> project_id], fault, out)
                    EXCEPT !.spans = out.value]
        /\ UNCHANGED <<traces, spans, now, nextTraceId, nextSpanId, walk, posted,
                       requests, inflight, accepted, environ, outside>>

CallGetStatsOn(fault, project_id) ==
    LET out == get_stats_on(fault, traces, spans, project_id)
    IN  /\ resp' = [FaultyCall("DynamoDBStorage.get_stats", 0,
                               [project_id |-> project_id], fault, out)
                    EXCEPT !.stats = out.value]
        /\ UNCHANGED <<traces, spans, now, nextTraceId, nextSpanId, walk, posted,
                       requests, inflight, accepted, environ, outside>>

CallCompleteTraceOn(fault, trace_id, output) ==
    LET out == complete_trace_on(fault, traces, trace_id, now, output)
    IN  /\ traces' = out.tbl
        /\ resp' = [FaultyCall("DynamoDBStorage.complete_trace", trace_id,
                               [output |-> output], fault, out)
                    EXCEPT !.result = out.value]
        /\ UNCHANGED <<spans, now, nextTraceId, nextSpanId, walk, posted,
                       requests, inflight, accepted, environ, outside>>

CallCompleteSpanOn(fault, span_id, args) ==
    LET out == complete_span_on(fault, spans, span_id, now, args)
    IN  /\ spans' = out.tbl
        /\ resp' = [FaultyCall("DynamoDBStorage.complete_span", span_id, args, fault, out)
                    EXCEPT !.result = out.value]
        /\ UNCHANGED <<traces, now, nextTraceId, nextSpanId, walk, posted,
                       requests, inflight, accepted, environ, outside>>

----------------------------------------------------------------------------
(* models.py: _drop_large_keys round by round *)

\* the payloads and ceilings of the calls: those of the requests, payloads of
\* four keys, and ceilings that nothing, little or everything fits
DropPayloads ==
    Payloads \cup
    {[a |-> <<"list", 5, 1>>, b |-> <<"list", 5, 2>>, c |-> <<"list", 100, 2>>],
     [a |-> <<"int", 1>>, b |-> <<"int", 1>>, c |-> <<"bool">>, _truncated |-> <<"bool">>],
     [a |-> <<"str", 40, "client">>, b |-> <<"str", 40, "client">>,
      c |-> <<"str", 30, "client">>, K |-> <<"int", 7>>]}
DropCeilings == {0, 50, 100, MAX_METADATA_SIZE}

\* result = data.copy(); dropped_keys = set()
drop_enters(data, max_size) ==
    /\ running = {}
    /\ running' = {[op |-> "_drop_large_keys", data |-> data, max_size |-> max_size,
                    result |-> data, dropped_keys |-> {}]}
    /\ resp' = NoResp
    /\ UNCHANGED <<traces, spans, now, nextTraceId, nextSpanId, walk, posted,
                   requests, inflight, accepted, environ, tracer>>

\* one round of the while loop
drop_rounds ==
    /\ \E call \in running :
          /\ call.op = "_drop_large_keys"
          /\ drop_continues(call.result, call.dropped_keys, call.max_size)
          /\ LET round == drop_round(call.result, call.dropped_keys)
             IN  running' = {[call EXCEPT !.result = round.result,
                                          !.dropped_keys = round.dropped_keys]}
    /\ resp' = NoResp
    /\ UNCHANGED <<traces, spans, now, nextTraceId, nextSpanId, walk, posted,
                   requests, inflight, accepted, environ, tracer>>

\* the loop ends and the function returns result
drop_returns ==
    /\ \E call \in running :
          /\ call.op = "_drop_large_keys"
          /\ ~ drop_continues(call.result, call.dropped_keys, call.max_size)
          /\ resp' = [StorageCall("_drop_large_keys", 0,
                                  [data |-> call.data, max_size |-> call.max_size], TRUE)
                      EXCEPT !.json = call.result]
    /\ running' = {}
    /\ UNCHANGED <<traces, spans, now, nextTraceId, nextSpanId, walk, posted,
                   requests, inflight, accepted, environ, tracer>>

----------------------------------------------------------------------------
(* dashboard/state.py: the span tree of the trace detail view *)

\* the spans of a flat list: an id, no parent_span_id or the id of a span
\* (MaxListedSpans + 1 is the id of a span that is in no list), a start_time
ListedSpans ==
    [span_id : 1..MaxListedSpans,
     parent_span_id : {{}} \cup {{q} : q \in 1..(MaxListedSpans + 1)},
     start_time : 0..1]

\* the flat lists the service returns for a trace: no span_id twice
SelectedSpans ==
    {spans_ \in UNION {[1..n -> ListedSpans] : n \in 0..MaxListedSpans} :
        \A i, j \in 1..Len(spans_) : i # j => spans_[i].span_id # spans_[j].span_id}

\* the loop of _build_span_tree from the i-th span on; tree holds roots, the
\* list of root ids, and children, the "children" list of every entry of
\* span_map
RECURSIVE link_spans(_, _, _)
link_spans(spans_, i, tree) ==
    IF i > Len(spans_) THEN tree
    ELSE LET span_id == spans_[i].span_id
             parent_id == spans_[i].parent_span_id
         IN  IF parent_id # {} /\ parent_id \subseteq DOMAIN tree.children
             THEN link_spans(spans_, i + 1,
                      [tree EXCEPT !.children[CHOOSE q \in parent_id : TRUE] =
                                       Append(@, span_id)])
             ELSE link_spans(spans_, i + 1, [tree EXCEPT !.roots = Append(@, span_id)])

\* _build_span_tree(spans)
DashboardState_build_span_tree(spans_) ==
    IF spans_ = <<>> THEN [roots |-> <<>>, children |-> <<>>]
    ELSE link_spans(spans_, 1,
             [roots |-> <<>>,
              children |-> [id \in {spans_[i].span_id : i \in 1..Len(spans_)} |-> <<>>]])

\* sorted(ids, key=start_time): a stable sort
RECURSIVE sorted(_, _)
sorted(ids, key) ==
    IF ids = <<>> THEN <<>>
    ELSE LET least == CHOOSE i \in 1..Len(ids) :
                          /\ \A j \in 1..Len(ids) : key[ids[i]] <= key[ids[j]]
                          /\ \A j \in 1..(i - 1) : key[ids[j]] # key[ids[i]]
         IN  <<ids[least]>> \o
             sorted(SubSeq(ids, 1, least - 1) \o SubSeq(ids, least + 1, Len(ids)), key)

\* flatten(spans, depth) of flattened_spans: every span of the list in the
\* order of start_time, each followed by its children one level deeper
RECURSIVE flatten(_, _, _, _)
flatten(ids, depth, children, key) ==
    LET RECURSIVE each(_)
        each(rest) ==
            IF rest = <<>> THEN <<>>
            ELSE <<[span_id |-> Head(rest), depth |-> depth]>>
                 \o (IF children[Head(rest)] # <<>>
                     THEN flatten(children[Head(rest)], depth + 1, children, key)
                     ELSE <<>>)
                 \o each(Tail(rest))
    IN  each(sorted(ids, key))

\* the computed var flattened_spans for the selected spans: the tree and the
\* flattened list
DashboardState_flattened_spans(selected_spans) ==
    LET tree == DashboardState_build_span_tree(selected_spans)
        key == [id \in DOMAIN tree.children |->
                   (CHOOSE i \in 1..Len(selected_spans) :
                        selected_spans[i].span_id = id) ]
        start_time == [id \in DOMAIN key |-> selected_spans[key[id]].start_time]
    IN  /\ resp' = [StorageCall("DashboardState.flattened_spans", 0,
                                [selected_spans |-> selected_spans], TRUE)
                    EXCEPT !.json = [tree |-> tree,
                                     result |-> IF selected_spans = <<>> THEN <<>>
                                                ELSE flatten(tree.roots, 0, tree.children,
                                                             start_time)]]
        /\ UNCHANGED <<traces, spans, now, nextTraceId, nextSpanId, walk, posted,
                       requests, inflight, accepted, environ, outside>>

----------------------------------------------------------------------------
(* server.py: traces with user, session and tags, and listings that filter *)

\* validate_tags of TraceCreate: blank tags are left out (the tags of the
\* model are shorter than the 100 characters a tag is cut to)
validate_tags(tags) == SelectSeq(tags, LAMBDA tag : tag \notin {"", " "})

\* the user_id, session_id and tags of the bodies of POST /api/traces
TraceBodies ==
    {[tags |-> <<>>],
     [user_id |-> "u1", tags |-> <<"x", " ">>],
     [user_id |-> "u2", session_id |-> "s1", tags |-> <<"y", "x">>],
     [user_id |-> "u1", session_id |-> "s1", tags |-> <<"x,y">>]}

\* the filters of GET /api/traces: user_id, session_id, and tags as the text
\* between the commas of the query parameter
ListFilters ==
    {[user_id |-> {}, session_id |-> {}, tags |-> {}],
     [user_id |-> {"u1"}, session_id |-> {}, tags |-> {}],
     [user_id |-> {""}, session_id |-> {"s1"}, tags |-> {}],
     [user_id |-> {}, session_id |-> {}, tags |-> {<<"x", "y">>}],
     [user_id |-> {"u2"}, session_id |-> {"s1"}, tags |-> {<<"y">>}],
     [user_id |-> {}, session_id |-> {}, tags |-> {<<"">>}],
     [user_id |-> {"u3"}, session_id |-> {}, tags |-> {}]}

\* tags.split(",") if tags else None
tag_list(tags) == IF tags = {} \/ tags = {<<"">>} THEN {} ELSE tags

\* POST /api/traces with user_id, session_id and tags
create_trace_of(key, body, cap) ==
    /\ nextTraceId <= cap
    /\ \E p \in extract_project_id(key) :
          traces' = DynamoDBStorage_save_trace(traces,
                        [f \in DOMAIN body \ {"tags"} |-> body[f]]
                        @@ [tags |-> validate_tags(body.tags)]
                        @@ Trace_to_dynamodb_item(nextTraceId, p, now), now)
    /\ nextTraceId' = nextTraceId + 1
    /\ resp' = [Response("create_trace", key, 0, body, 200) EXCEPT !.created = nextTraceId]
    /\ UNCHANGED <<spans, now, nextSpanId, walk, posted,
                   requests, inflight, accepted, environ, outside>>

\* GET /api/traces with filters
get_traces_of(key, limit, cursor, filters) ==
    /\ \E p \in extract_project_id(key) :
          LET query == [project_id |-> p, limit |-> limit, cursor |-> cursor,
                        user_id |-> filters.user_id, session_id |-> filters.session_id,
                        tags |-> tag_list(filters.tags)]
              result == DynamoDBStorage_get_traces_query(traces, query)
          IN  resp' = [Response("get_traces", key, 0,
                                [limit |-> limit, cursor |-> cursor] @@ filters, 200)
                       EXCEPT !.traces = result.items,
                              !.next_cursor = result.next_cursor,
                              !.has_more = has_more(result.next_cursor),
                              !.count = Len(result.items)]
    /\ UNCHANGED <<traces, spans, now, nextTraceId, nextSpanId, posted,
                   requests, inflight, accepted, environ, outside>>

----------------------------------------------------------------------------
(* server.py: the completion handlers when a call to the store may raise *)

\* the answer of a handler whose storage method raised exc
StoreRaised(response, exc) == Answer(response, Error(exc, "store error"))

\* `await storage.complete_trace(...)`: the handler does not look at the result
awaited_complete_status(ok) == 200

\* PATCH /api/traces/{trace_id}/complete: get_trace, then
\* storage.complete_trace, then the answer
complete_trace_over(fault, key, trace_id, output) ==
    LET api == extract_project_id(key)
        req == [output |-> output, fault |-> fault]
    IN  /\ IF api = {}
           THEN /\ resp' = Response("complete_trace", key, trace_id, req, 400)
                /\ UNCHANGED traces
           ELSE LET trace == get_trace_on(fault, traces, trace_id, CHOOSE p \in api : TRUE)
                    out == complete_trace_on(after(fault, trace.calls), traces, trace_id,
                                             now, output)
                IN  IF trace.raised # {}
                    THEN /\ resp' = StoreRaised(Response("complete_trace", key, trace_id, req, 0),
                                                CHOOSE e \in trace.raised : TRUE)
                         /\ UNCHANGED traces
                    ELSE IF trace.value = {}
                    THEN /\ resp' = [Response("complete_trace", key, trace_id, req, 404)
                                        EXCEPT !.erred = trace.erred]
                         /\ UNCHANGED traces
                    ELSE /\ traces' = out.tbl
                         /\ resp' = [Response("complete_trace", key, trace_id, req,
                                               awaited_complete_status(out.value))
                                        EXCEPT !.result = out.value,
                                               !.erred = out.erred,
                                               !.json = [trace_id |-> trace_id,
                                                         status |-> "completed"]]
        /\ UNCHANGED <<spans, now, nextTraceId, nextSpanId, walk, posted,
                       requests, inflight, accepted, environ, outside>>

\* PATCH /api/spans/{span_id}/complete: get_span, get_trace, then
\* storage.complete_span, then the answer
complete_span_over(fault, key, span_id, body) ==
    LET api == extract_project_id(key)
        req == body @@ [fault |-> fault]
        span == get_span_on(fault, spans, span_id)
    IN  /\ IF api = {}
           THEN /\ resp' = Response("complete_span", key, span_id, req, 400)
                /\ UNCHANGED spans
           ELSE IF span.raised # {}
           THEN /\ resp' = StoreRaised(Response("complete_span", key, span_id, req, 0),
                                       CHOOSE e \in span.raised : TRUE)
                /\ UNCHANGED spans
           ELSE IF span.value = {}
           THEN /\ resp' = [Response("complete_span", key, span_id, req, 404)
                               EXCEPT !.erred = span.erred]
                /\ UNCHANGED spans
           ELSE LET trace == get_trace_on(after(fault, span.calls), traces,
                                          (CHOOSE x \in span.value : TRUE)["trace_id"],
                                          CHOOSE p \in api : TRUE)
                    rest == after(after(fault, span.calls), trace.calls)
                    out == complete_span_on(rest, spans, span_id, now,
                                            complete_span_call_args(body))
                IN  IF trace.raised # {}
                    THEN /\ resp' = StoreRaised(Response("complete_span", key, span_id, req, 0),
                                                CHOOSE e \in trace.raised : TRUE)
                         /\ UNCHANGED spans
                    ELSE IF trace.value = {}
                    THEN /\ resp' = [Response("complete_span", key, span_id, req, 403)
                                        EXCEPT !.erred = trace.erred]
                         /\ UNCHANGED spans
                    ELSE IF ~ (complete_span_call_kwargs \subseteq complete_span_params)
                    THEN /\ resp' = Answer(Response("complete_span", key, span_id, req, 0),
                                           Error("TypeError", "unexpected keyword argument"))
                         /\ UNCHANGED spans
                    ELSE IF out.raised # {}
                    THEN /\ resp' = StoreRaised(Response("complete_span", key, span_id, req, 0),
                                                CHOOSE e \in out.raised : TRUE)
                         /\ UNCHANGED spans
                    ELSE /\ spans' = out.tbl
                         /\ resp' = [Response("complete_span", key, span_id, req,
                                               awaited_complete_status(out.value))
                                        EXCEPT !.result = out.value,
                                               !.erred = out.erred,
                                               !.json = [span_id |-> span_id,
                                                         status |-> "completed"]]
        /\ UNCHANGED <<traces, now, nextTraceId, nextSpanId, walk, posted,
                       requests, inflight, accepted, environ, outside>>

----------------------------------------------------------------------------
(* Requests with payloads, through the validators of models.py *)

\* POST /api/traces with metadata: TraceCreate, then Trace, then save_trace
create_trace_with(key, metadata) ==
    LET stored == truncate_metadata(truncate_metadata(metadata))
    IN  /\ nextTraceId <= MaxGuardTraces
        /\ traces' = DynamoDBStorage_save_trace(traces,
                         set_item(Trace_to_dynamodb_item(nextTraceId, key[2], now),
                                  "metadata", stored), now)
        /\ nextTraceId' = nextTraceId + 1
        /\ resp' = [Response("create_trace", key, 0,
                             [project_id |-> key[2], metadata |-> metadata], 200)
                    EXCEPT !.created = nextTraceId]
        /\ UNCHANGED <<spans, now, nextSpanId, walk, posted,
                       requests, inflight, accepted, environ, outside>>

\* POST /api/traces/{trace_id}/spans with metadata: SpanCreate, then Span
\* (metadata=span.metadata or {}), then save_span
create_span_with(key, trace_id, metadata) ==
    LET stored == truncate_metadata(truncate_metadata(metadata))
    IN  /\ nextSpanId <= MaxGuardSpans
        /\ DynamoDBStorage_get_trace(traces, trace_id, key[2]) # {}
        /\ spans' = DynamoDBStorage_save_span(spans,
                        Span_to_dynamodb_item(nextSpanId, trace_id, now,
                                              [metadata |-> stored]), now)
        /\ nextSpanId' = nextSpanId + 1
        /\ posted' = posted @@ (nextSpanId :> trace_id)
        /\ resp' = [Response("create_span", key, trace_id, [metadata |-> metadata], 200)
                    EXCEPT !.created = nextSpanId]
        /\ UNCHANGED <<traces, now, nextTraceId, walk,
                       requests, inflight, accepted, environ, outside>>

\* SpanCompleteRequest(output_data=...): the body of PATCH .../complete as the
\* handler gets it
SpanCompleteRequest(output_data) ==
    /\ resp' = [Response("SpanCompleteRequest", <<>>, 0, [output_data |-> output_data], 0)
                EXCEPT !.json = truncate_output_data(output_data)]
    /\ UNCHANGED <<traces, spans, now, nextTraceId, nextSpanId, walk, posted,
                   requests, inflight, accepted, environ, outside>>

----------------------------------------------------------------------------
(* client/llm_tracer/client.py *)

\* isinstance(e, Exception): asyncio.CancelledError, KeyboardInterrupt and
\* SystemExit derive from BaseException only
isinstance_Exception(e) == e.type \notin {"CancelledError", "KeyboardInterrupt", "SystemExit"}

\* TracerClient.__init__: enabled and project_id
TracerClient_enabled(api_key, tracing_enabled) ==
    IF api_key = {} THEN FALSE ELSE lower(tracing_enabled) = "true"

TracerClient_project_id(api_key) ==
    IF api_key = {} THEN {}
    ELSE LET k == CHOOSE x \in api_key : TRUE
         IN  IF k[1] = "project-" THEN {k[2]} ELSE {}

\* a client after construction: no scope open, nothing called
NewTracer(api_key, tracing_enabled, opened) ==
    [enabled |-> TracerClient_enabled(api_key, tracing_enabled),
     project_id |-> TracerClient_project_id(api_key),
     stack |-> <<>>, raised |-> {}, opened |-> opened,
     ids |-> <<>>, calls |-> <<>>, http |-> 0,
     last |-> [op |-> "none", outcome |-> "none", value |-> {}, exc |-> {}, requests |-> 0]]

\* the try block of a create_* method: the value it returns, or the exception
\* that post, raise_for_status or result["..."] raises
try_post(outcome, id) ==
    IF outcome = "2xx" THEN [value |-> {id}, exc |-> {}]
    ELSE IF outcome = "2xx without id" THEN [value |-> {}, exc |-> {Error("KeyError", "id")}]
    ELSE IF outcome = "5xx" THEN [value |-> {}, exc |-> {Error("HTTPStatusError", "Server error")}]
    ELSE [value |-> {}, exc |-> {Error(outcome, "")}]

\* the try block of a complete_* method: patch, without raise_for_status
try_patch(outcome) ==
    IF outcome \in {"2xx", "2xx without id", "5xx"} THEN [value |-> {}, exc |-> {}]
    ELSE [value |-> {}, exc |-> {Error(outcome, "")}]

\* faulty variant of the except clause: only the errors of httpx are caught
except_HTTPError(r) ==
    IF r.exc # {} /\ (CHOOSE e \in r.exc : TRUE).type # "KeyError"
    THEN [value |-> {}, exc |-> {}]
    ELSE r

\* `except Exception as e: logger.warning(...); return None`
except_Exception(r) ==
    IF r.exc # {} /\ isinstance_Exception(CHOOSE e \in r.exc : TRUE)
    THEN [value |-> {}, exc |-> {}]
    ELSE r

\* TracerClient.create_trace: what it gives and the requests it makes
TracerClient_create_trace(t, outcome, id) ==
    IF ~t.enabled THEN [value |-> {}, exc |-> {}, requests |-> 0]
    ELSE IF t.project_id = {} THEN [value |-> {}, exc |-> {}, requests |-> 0]
    ELSE except_Exception(try_post(outcome, id)) @@ [requests |-> 1]

\* TracerClient.create_span
TracerClient_create_span(t, outcome, id) ==
    IF ~t.enabled THEN [value |-> {}, exc |-> {}, requests |-> 0]
    ELSE except_Exception(try_post(outcome, id)) @@ [requests |-> 1]

\* TracerClient.complete_span and TracerClient.complete_trace
TracerClient_complete(t, outcome) ==
    IF ~t.enabled THEN [value |-> {}, exc |-> {}, requests |-> 0]
    ELSE except_Exception(try_patch(outcome)) @@ [requests |-> 1]

\* a scope of user code: its number, the context object it yielded (trace_id
\* for a TraceContext, span_id for a SpanContext) and what was set on it
Scope(n, kind, id) == [n |-> n, kind |-> kind, id |-> id, error |-> {}, output |-> {}]

Top == tracer.stack[Len(tracer.stack)]

\* the latest call of the library: what its request met, what it returned or
\* raised, and the requests it made
Last(op, outcome, r) ==
    [op |-> op, outcome |-> IF r.requests = 0 THEN "none" ELSE outcome,
     value |-> r.value, exc |-> r.exc, requests |-> r.requests]

\* a call of the library returned r to a scope that stays or becomes open
Called(t, op, outcome, r) ==
    [t EXCEPT !.http = @ + r.requests,
              !.raised = r.exc,
              !.last = Last(op, outcome, r)]

\* async with tracer.trace(...): up to the yield
TracerClient_trace(outcome) ==
    LET n == tracer.opened + 1
        r == TracerClient_create_trace(tracer, outcome, n)
    IN  /\ tracer.raised = {}
        /\ n <= MaxScopes
        /\ Len(tracer.stack) < MaxDepth
        /\ tracer' = [Called(tracer, "create_trace", outcome, r) EXCEPT
                         !.opened = n,
                         !.ids = @ @@ (n :> r.value),
                         !.calls = @ @@ (n :> <<>>),
                         !.stack = IF r.exc = {} THEN Append(@, Scope(n, "trace", r.value))
                                   ELSE @]
        /\ UNCHANGED service

\* async with trace.span(...) and async with span.span(...): up to the yield
Context_span(outcome) ==
    LET n == tracer.opened + 1
        r == IF tracer.enabled /\ Top.id # {}
             THEN TracerClient_create_span(tracer, outcome, n)
             ELSE [value |-> {}, exc |-> {}, requests |-> 0]
    IN  /\ tracer.raised = {}
        /\ tracer.stack # <<>>
        /\ n <= MaxScopes
        /\ Len(tracer.stack) < MaxDepth
        /\ tracer' = [Called(tracer, "create_span", outcome, r) EXCEPT
                         !.opened = n,
                         !.ids = @ @@ (n :> r.value),
                         !.calls = @ @@ (n :> <<>>),
                         !.stack = IF r.exc = {} THEN Append(@, Scope(n, "span", r.value))
                                   ELSE @]
        /\ UNCHANGED service

\* the body of a scope calls set_output or set_error on its context
Context_set(field, value) ==
    /\ tracer.raised = {}
    /\ tracer.stack # <<>>
    /\ field = "error" => Top.kind = "span"
    /\ Top[field] # {value}
    /\ tracer' = [tracer EXCEPT !.stack[Len(tracer.stack)][field] = {value}]
    /\ UNCHANGED service

\* the body of the innermost scope raises e
BodyRaise(e) ==
    /\ tracer.raised = {}
    /\ tracer.stack # <<>>
    /\ tracer' = [tracer EXCEPT !.raised = {e}]
    /\ UNCHANGED service

\* `except Exception as e:` of a scope: what the context holds afterwards
scope_except(scope, raised) ==
    IF raised = {} \/ ~isinstance_Exception(CHOOSE e \in raised : TRUE) THEN scope
    ELSE LET e == CHOOSE x \in raised : TRUE
         IN  IF scope.kind = "trace"
             THEN [scope EXCEPT !.output = {<<"Error: ", str(e)>>}]
             ELSE [scope EXCEPT !.error = {str(e)}]

\* the innermost scope is left, by the end of its body or by the exception
\* that is propagating: the except clause, then the finally clause
ScopeExit(outcome) ==
    /\ tracer.stack # <<>>
    /\ LET scope == scope_except(Top, tracer.raised)
           r == IF scope.id # {} THEN TracerClient_complete(tracer, outcome)
                ELSE [value |-> {}, exc |-> {}, requests |-> 0]
           call == [op |-> IF scope.kind = "trace" THEN "complete_trace" ELSE "complete_span",
                    id |-> scope.id, error |-> scope.error, output |-> scope.output]
       IN  tracer' = [tracer EXCEPT
                         !.stack = SubSeq(@, 1, Len(@) - 1),
                         !.calls[scope.n] = IF scope.id # {} THEN Append(@, call) ELSE @,
                         !.http = @ + r.requests,
                         !.raised = IF r.exc # {} THEN r.exc ELSE @,
                         !.last = Last(IF scope.id # {} THEN call.op ELSE "none", outcome, r)]
    /\ UNCHANGED service

\* user code catches the exception that left its scopes (pytest.raises, try)
UserExcept ==
    /\ tracer.raised # {}
    /\ tracer' = [tracer EXCEPT !.raised = {}]
    /\ UNCHANGED service

\* TracerClient(api_key=..., ...) with TRACING_ENABLED in the environment
TracerClient_init(api_key, tracing_enabled) ==
    /\ tracer.stack = <<>>
    /\ tracer.raised = {}
    /\ tracer.opened < MaxScopes
    /\ tracer' = NewTracer(api_key, tracing_enabled, tracer.opened)
    /\ tracer' # tracer
    /\ UNCHANGED service

----------------------------------------------------------------------------
(* storage_dynamodb.py: complete_trace and complete_span as the two requests *)
(* they send to the store, which serves other requests in between          *)

\* the outputs and the optional arguments of the completion calls in progress
RaceOutputs == {{}, {"o1"}}
RaceArgs == {<<>>, [tokens_input |-> 5], [error |-> "e1", tokens_input |-> 7]}

\* a call that has read its record: the start_time it read, and its arguments
Running(op, id, start_time, args) ==
    [op |-> op, id |-> id, end_time |-> now, start_time |-> start_time, args |-> args]

\* complete_trace from its entry to the answer of get_trace; a record without
\* start_time raises KeyError, which `except Exception` turns into False
complete_trace_reads(trace_id, output) ==
    LET found == DynamoDBStorage_get_trace(traces, trace_id, "")
        failed == StorageCall("DynamoDBStorage.complete_trace", trace_id,
                              [output |-> output], FALSE)
    IN  /\ Cardinality(running) < MaxRunning
        /\ IF found = {}
           THEN /\ resp' = failed
                /\ running' = running
           ELSE IF "start_time" \notin DOMAIN (CHOOSE x \in found : TRUE)
           THEN /\ resp' = [failed EXCEPT !.erred = TRUE]
                /\ running' = running
           ELSE /\ resp' = NoResp
                /\ running' = running \cup
                       {Running("complete_trace", trace_id,
                                (CHOOSE x \in found : TRUE)["start_time"],
                                [output |-> output])}
        /\ UNCHANGED <<traces, spans, now, nextTraceId, nextSpanId, walk, posted,
                       requests, inflight, accepted, environ, tracer>>

\* complete_trace from its update_item to its return
complete_trace_writes ==
    /\ \E call \in running :
          /\ call.op = "complete_trace"
          /\ traces' = update_item(traces, "trace_id", call.id,
                           complete_trace_sets(call.start_time, call.end_time,
                                               call.args.output))
          /\ running' = running \ {call}
          /\ resp' = StorageCall("DynamoDBStorage.complete_trace", call.id,
                                 call.args, TRUE)
    /\ UNCHANGED <<spans, now, nextTraceId, nextSpanId, walk, posted,
                   requests, inflight, accepted, environ, tracer>>

\* complete_span from its entry to the answer of get_item; a record without
\* start_time raises KeyError, which `except ClientError` lets through
complete_span_reads(span_id, args) ==
    /\ Cardinality(running) < MaxRunning
    /\ IF span_id \notin DOMAIN spans
       THEN /\ resp' = StorageCall("DynamoDBStorage.complete_span", span_id, args, FALSE)
            /\ running' = running
       ELSE IF "start_time" \notin DOMAIN spans[span_id]
       THEN /\ resp' = [StorageCall("DynamoDBStorage.complete_span", span_id, args, FALSE)
                           EXCEPT !.raised = {"KeyError"}]
            /\ running' = running
       ELSE /\ resp' = NoResp
            /\ running' = running \cup
                   {Running("complete_span", span_id, spans[span_id]["start_time"], args)}
    /\ UNCHANGED <<traces, spans, now, nextTraceId, nextSpanId, walk, posted,
                   requests, inflight, accepted, environ, tracer>>

\* complete_span from its update_item to its return
complete_span_writes ==
    /\ \E call \in running :
          /\ call.op = "complete_span"
          /\ spans' = update_item(spans, "span_id", call.id,
                          complete_span_sets(call.start_time, call.end_time, call.args))
          /\ running' = running \ {call}
          /\ resp' = StorageCall("DynamoDBStorage.complete_span", call.id,
                                 call.args, TRUE)
    /\ UNCHANGED <<traces, now, nextTraceId, nextSpanId, walk, posted,
                   requests, inflight, accepted, environ, tracer>>

----------------------------------------------------------------------------
(* server.py: create_trace as its reading of the clock and, later, its request *)
(* to the store                                                              *)

\* POST /api/traces up to Trace(..., start_time=datetime.now(UTC))
create_trace_stamps(key, cap) ==
    /\ nextTraceId <= cap
    /\ Cardinality(running) < MaxRunning
    /\ \E p \in extract_project_id(key) :
          running' = running \cup
              {[op |-> "create_trace", id |-> nextTraceId, key |-> key,
                trace |-> Trace_to_dynamodb_item(nextTraceId, p, now)]}
    /\ nextTraceId' = nextTraceId + 1
    /\ resp' = NoResp
    /\ UNCHANGED <<traces, spans, now, nextSpanId, walk, posted,
                   requests, inflight, accepted, environ, tracer>>

\* POST /api/traces from storage.save_trace(trace) to its answer
create_trace_saves ==
    /\ \E call \in running :
          /\ call.op = "create_trace"
          /\ traces' = DynamoDBStorage_save_trace(traces, call.trace, now)
          /\ running' = running \ {call}
          /\ resp' = [Response("create_trace", call.key, 0,
                               [project_id |-> call.trace["project_id"]], 200)
                      EXCEPT !.created = call.id]
    /\ UNCHANGED <<spans, now, nextTraceId, nextSpanId, walk, posted,
                   requests, inflight, accepted, environ, tracer>>

----------------------------------------------------------------------------
(* The environment: the clock and the store's removal of expired records *)

RetentionSeconds == TtlDays * 24 * 60 * 60

\* the clock moves to a later instant of the same retention period
Tick(instants) ==
    /\ \E us \in instants :
          LET t == [sec |-> (now.sec \div (RetentionSeconds + 1)) * (RetentionSeconds + 1)
                            + (us \div MicrosPerSecond),
                    us  |-> us % MicrosPerSecond]
          IN  /\ DeltaMicros(t, [sec |-> now.sec, us |-> now.us]) > 0
              /\ now' = t
    /\ resp' = NoResp
    /\ UNCHANGED <<traces, spans, nextTraceId, nextSpanId, walk, posted,
                   requests, inflight, accepted, environ, outside>>

\* the retention period passes
AdvanceRetention ==
    /\ now.sec \div (RetentionSeconds + 1) < MaxEras
    /\ now' = [sec |-> now.sec + RetentionSeconds + 1, us |-> now.us]
    /\ resp' = NoResp
    /\ UNCHANGED <<traces, spans, nextTraceId, nextSpanId, walk, posted,
                   requests, inflight, accepted, environ, outside>>

\* the store removes a trace whose ttl has passed
ExpireTrace(trace_id) ==
    /\ trace_id \in DOMAIN traces
    /\ "ttl" \in DOMAIN traces[trace_id]
    /\ traces[trace_id]["ttl"] < EpochSeconds(now)
    /\ traces' = delete_item(traces, trace_id)
    /\ resp' = NoResp
    /\ UNCHANGED <<spans, now, nextTraceId, nextSpanId, walk, posted,
                   requests, inflight, accepted, environ, outside>>

\* the store removes a span whose ttl has passed
ExpireSpan(span_id) ==
    /\ span_id \in DOMAIN spans
    /\ "ttl" \in DOMAIN spans[span_id]
    /\ spans[span_id]["ttl"] < EpochSeconds(now)
    /\ spans' = delete_item(spans, span_id)
    /\ resp' = NoResp
    /\ UNCHANGED <<traces, now, nextTraceId, nextSpanId, walk, posted,
                   requests, inflight, accepted, environ, outside>>

NoWalk == [key |-> <<>>, limit |-> 0, cursor |-> {}, items |-> <<>>, pages |-> 0]

\* a client asks for the first page of a listing
WalkFirst(key, limit) ==
    /\ get_traces(key, limit, {})
    /\ walk' = [key |-> key, limit |-> limit, cursor |-> resp'.next_cursor,
                items |-> resp'.traces, pages |-> 1]
    /\ UNCHANGED front

\* the first page of a walk that remembers, as history, the traces the store
\* held when the page was answered and the time of the answer
SnapshotWalkFirst(key, limit) ==
    /\ get_traces(key, limit, {})
    /\ walk' = [key |-> key, limit |-> limit, cursor |-> resp'.next_cursor,
                items |-> resp'.traces, pages |-> 1,
                known |-> DOMAIN traces, issued |-> now]
    /\ UNCHANGED front

\* the client follows the next_cursor of the page it holds
WalkNext ==
    /\ walk.cursor # {}
    /\ get_traces(walk.key, walk.limit, walk.cursor)
    /\ walk' = [walk EXCEPT !.cursor = resp'.next_cursor,
                            !.items = walk.items \o resp'.traces,
                            !.pages = walk.pages + 1]
    /\ UNCHANGED front

\* a client asks for the first page of a listing with filters
FilterWalkFirst(key, limit, filters) ==
    /\ walk = NoWalk
    /\ get_traces_of(key, limit, {}, filters)
    /\ walk' = [key |-> key, limit |-> limit, cursor |-> resp'.next_cursor,
                items |-> resp'.traces, pages |-> 1, filters |-> filters]

\* the client follows next_cursor while has_more is set
FilterWalkNext ==
    /\ walk # NoWalk
    /\ resp.has_more
    /\ get_traces_of(walk.key, walk.limit, walk.cursor, walk.filters)
    /\ walk' = [walk EXCEPT !.cursor = resp'.next_cursor,
                            !.items = walk.items \o resp'.traces,
                            !.pages = walk.pages + 1]

\* the cursors a listing can have returned for the stored traces
IssuedCursors == {encode_cursor(IndexKey(traces[t])) : t \in DOMAIN traces}

\* the model computes a duration only for a trace of the current retention
\* period (a longer one does not fit the model's integers): a completion
\* request that gets as far as the computation is taken only for such a trace
DurationFits(key, trace_id) ==
    \A p \in extract_project_id(key) :
        \A trace \in DynamoDBStorage_get_trace(traces, trace_id, p) :
            EpochSeconds(now) - fromisoformat(trace["start_time"]).sec <= MaxAgeSeconds

Init ==
    /\ traces = <<>>
    /\ spans = <<>>
    /\ now = [sec |-> 0, us |-> 0]
    /\ nextTraceId = 1
    /\ nextSpanId = 1
    /\ resp = NoResp
    /\ walk = NoWalk
    /\ posted = <<>>
    /\ requests = [ip \in ClientIps |-> <<>>]
    /\ inflight = {}
    /\ accepted = [ip \in ClientIps |-> <<>>]
    /\ environ = TestEnviron
    /\ tracer = NewTracer({<<"project-", "a">>}, "true", 0)
    /\ running = {}

Next ==
    \/ \E key \in ApiKeys, p \in Projects :
          create_trace(key, p, MaxTraces) /\ UNCHANGED front
    \/ \E key \in ApiKeys, id \in 1..MaxTraces :
          create_span(key, id, <<>>, MaxSpans) /\ UNCHANGED front
    \/ \E key \in ApiKeys, id \in 1..MaxSpans :
          complete_span(key, id, [tokens_input |-> 5]) /\ UNCHANGED front
    \/ \E key \in ApiKeys, id \in 1..MaxTraces :
          DurationFits(key, id) /\ complete_trace(key, id, {"o1"}) /\ UNCHANGED front
    \/ \E key \in ApiKeys, id \in 1..MaxTraces : get_trace(key, id) /\ UNCHANGED front
    \/ \E key \in ApiKeys, limit \in 1..MaxLimit, c \in {{}} \cup {{x} : x \in IssuedCursors} :
          get_traces(key, limit, c) /\ UNCHANGED <<walk, front>>
    \/ AdvanceRetention
    \/ Tick(CoarseInstants)
    \/ \E id \in 1..MaxTraces : ExpireTrace(id)
    \/ \E id \in 1..MaxSpans : ExpireSpan(id)

Spec == Init /\ [][Next]_vars

\* completions of a trace, sent request by request to a store that removes
\* expired records
ExpiryRaceNext ==
    \/ \E p \in Projects : CallSaveTrace(p, MaxRaceTraces)
    \/ \E id \in 1..MaxRaceTraces, o \in RaceOutputs : complete_trace_reads(id, o)
    \/ complete_trace_writes
    \/ Tick(ClockInstants)
    \/ AdvanceRetention
    \/ \E id \in 1..MaxRaceTraces : ExpireTrace(id)

ExpiryRaceSpec == Init /\ [][ExpiryRaceNext]_vars

\* concurrent completions of a span, sent request by request to the store
SpanRaceNext ==
    \/ \E p \in Projects : CallSaveTrace(p, MaxRaceTraces)
    \/ \E id \in 1..MaxRaceTraces : CallSaveSpan(id, <<>>, MaxRaceSpans)
    \/ \E id \in 1..MaxRaceSpans, a \in RaceArgs : complete_span_reads(id, a)
    \/ complete_span_writes
    \/ Tick(ClockInstants)

SpanRaceSpec == Init /\ [][SpanRaceNext]_vars

\* completion requests to a service whose store may answer with an error
CompletionNext ==
    \/ \E p \in Projects : CallSaveTrace(p, MaxRaceTraces)
    \/ \E id \in 1..MaxRaceTraces : CallSaveSpan(id, <<>>, MaxRaceSpans)
    \/ \E f \in Faults, key \in ApiKeys, id \in 1..MaxRaceTraces, o \in RaceOutputs :
          complete_trace_over(f, key, id, o)
    \/ \E f \in Faults, key \in ApiKeys, id \in 1..MaxRaceSpans :
          complete_span_over(f, key, id, [tokens_output |-> 7])
    \/ Tick(ClockInstants)

CompletionSpec == Init /\ [][CompletionNext]_vars

\* a client walks a listing while traces are being created
SnapshotNext ==
    \/ create_trace_stamps(<<"project-", "a">>, MaxSnapshotTraces)
    \/ create_trace_saves
    \/ \E limit \in 1..MaxLimit : SnapshotWalkFirst(<<"project-", "a">>, limit)
    \/ WalkNext
    \/ Tick(ClockInstants)

SnapshotSpec == Init /\ [][SnapshotNext]_vars

\* traces are created, then a client walks a filtered listing to its end
FilterNext ==
    \/ \E key \in ListKeys, body \in TraceBodies :
          walk = NoWalk /\ create_trace_of(key, body, MaxFilterTraces)
    \/ walk = NoWalk /\ Tick(CoarseInstants)
    \/ \E key \in ListKeys, limit \in 1..MaxLimit, f \in ListFilters :
          FilterWalkFirst(key, limit, f)
    \/ FilterWalkNext

FilterSpec == Init /\ [][FilterNext]_vars

\* calls of _drop_large_keys, one at a time
DropNext ==
    \/ \E data \in DropPayloads, max_size \in DropCeilings : drop_enters(data, max_size)
    \/ drop_rounds
    \/ drop_returns

\* a call that can take its next step takes it
DropSpec == Init /\ [][DropNext]_vars /\ WF_vars(drop_rounds) /\ WF_vars(drop_returns)

\* the dashboard is opened on the spans of a trace
DashboardNext ==
    /\ resp = NoResp
    /\ \E selected_spans \in SelectedSpans : DashboardState_flattened_spans(selected_spans)

DashboardSpec == Init /\ [][DashboardNext]_vars

\* the storage engine driven directly, with the fine clock
StorageNext ==
    \/ \E p \in Projects : CallSaveTrace(p, MaxStoredTraces)
    \/ \E id \in 1..MaxStoredTraces, o \in Outputs : CallCompleteTrace(id, o)
    \/ \E id \in 1..MaxStoredTraces, f \in SpanFields : CallSaveSpan(id, f, MaxStoredSpans)
    \/ \E id \in 1..MaxStoredSpans, a \in CompleteArgs : CallCompleteSpan(id, a)
    \/ Tick(ClockInstants)

StorageSpec == Init /\ [][StorageNext]_vars

\* listing walks while traces are created and removed
ListNext ==
    \/ \E key \in ListKeys : create_trace(key, key[2], MaxListTraces) /\ UNCHANGED front
    \/ \E key \in ListKeys, limit \in 1..MaxLimit : WalkFirst(key, limit)
    \/ WalkNext
    \/ Tick(CoarseInstants)
    \/ AdvanceRetention
    \/ \E id \in 1..MaxListTraces : ExpireTrace(id)

ListSpec == Init /\ [][ListNext]_vars

\* list requests with any cursor: none, one a listing issued, one it did not
CursorNext ==
    \/ \E key \in ListKeys : create_trace(key, key[2], MaxCursorTraces) /\ UNCHANGED front
    \/ \E key \in ListKeys, limit \in 1..MaxLimit,
          c \in {{}} \cup {{x} : x \in BadCursors \cup IssuedCursors} :
          get_traces(key, limit, c) /\ UNCHANGED <<walk, front>>
    \/ Tick(CoarseInstants)

CursorSpec == Init /\ [][CursorNext]_vars

\* the rate limiter alone
RateNext ==
    \/ \E ip \in ClientIps : check_rate_limit(ip)
    \/ Tick(RateInstants)

RateSpec == Init /\ [][RateNext]_vars

\* the storage engine driven directly while calls to the store fail
FaultNext ==
    \/ \E p \in Projects : CallSaveTrace(p, MaxFaultTraces)
    \/ \E id \in 1..MaxFaultTraces, f \in FaultSpanFields : CallSaveSpan(id, f, MaxFaultSpans)
    \/ \E f \in Faults, id \in 1..MaxFaultTraces, p \in Projects \cup {""} :
          CallGetTraceOn(f, id, p)
    \/ \E f \in Faults, id \in 1..MaxFaultSpans : CallGetSpanOn(f, id)
    \/ \E f \in Faults, p \in Projects : CallGetTracesOn(f, p, MaxLimit)
    \/ \E f \in Faults, id \in 1..MaxFaultTraces, p \in Projects \cup {""} :
          CallGetSpansOn(f, id, p)
    \/ \E f \in Faults, p \in Projects : CallGetStatsOn(f, p)
    \/ \E f \in Faults, id \in 1..MaxFaultTraces : CallCompleteTraceOn(f, id, {"o1"})
    \/ \E f \in Faults, id \in 1..MaxFaultSpans :
          CallCompleteSpanOn(f, id, [tokens_output |-> 7])

FaultSpec == Init /\ [][FaultNext]_vars

\* traces and spans with parents
TreeNext ==
    \/ \E key \in ListKeys : create_trace(key, key[2], MaxTreeTraces) /\ UNCHANGED front
    \/ \E key \in ListKeys, id \in 1..MaxTreeTraces, body \in SpanCreateBodies :
          create_span(key, id, body, MaxTreeSpans) /\ UNCHANGED front

TreeSpec == Init /\ [][TreeNext]_vars

\* requests with payloads of every size
GuardNext ==
    \/ \E key \in ListKeys, m \in Payloads : create_trace_with(key, m)
    \/ \E key \in ListKeys, id \in 1..MaxGuardTraces, m \in Payloads :
          create_span_with(key, id, m)
    \/ \E d \in Payloads : SpanCompleteRequest(d)
    \/ Tick(CoarseInstants)

GuardSpec == Init /\ [][GuardNext]_vars

\* a trace was created at this instant of the clock
CreatedNow == \E t \in DOMAIN traces : traces[t]["start_time"] = isoformat(now)

\* many traces, one per instant, the first of either project, with spans on
\* an old and on a later trace (created once both exist), and requests for
\* the totals
StatsNext ==
    \/ \E key \in ListKeys :
          /\ ~CreatedNow
          /\ nextTraceId > 1 => key[2] = "a"
          /\ create_trace(key, key[2], MaxStatsTraces) /\ UNCHANGED front
    \/ \E id \in StatsSpanTraces, body \in StatsSpanBodies :
          /\ ~CreatedNow
          /\ nextTraceId = 4
          /\ create_span(<<"project-", traces[id]["project_id"]>>, id, body, MaxStatsSpans)
          /\ UNCHANGED front
    \/ \E key \in ListKeys : get_stats(key) /\ UNCHANGED front
    \/ CreatedNow /\ Tick({now.us + 1})

StatsSpec == Init /\ [][StatsNext]_vars

\* user code on the client library
ClientNext ==
    \/ \E k \in ApiKeyArgs, v \in TracingEnabled : TracerClient_init(k, v)
    \/ \E o \in HttpOutcomes : TracerClient_trace(o)
    \/ \E o \in HttpOutcomes : Context_span(o)
    \/ Context_set("output", "done") \/ Context_set("error", "failed")
    \/ \E e \in BodyRaises : BodyRaise(e)
    \/ \E o \in HttpOutcomes : ScopeExit(o)
    \/ UserExcept

ClientSpec == Init /\ [][ClientNext]_vars

\* requests through the middleware, the dependency and the routes
HttpNext ==
    \/ \E r \in HttpRequests : rate_limit_middleware(r)
    \/ \E r \in inflight : call_next(r)
    \/ \E r \in inflight, e \in Raisable : call_next_raising(r, e)
    \/ \E env \in Environs : setenv(env)
    \/ Tick(HttpInstants)

HttpSpec == Init /\ [][HttpNext]_vars

----------------------------------------------------------------------------
(* Properties *)

\* the project of the caller of the latest request, as a set ({} when the key
\* names none)
Caller == extract_project_id(resp.key)

\* the trace is stored and belongs to one of the projects ps
OwnedBy(trace_id, ps) ==
    /\ trace_id \in DOMAIN traces
    /\ "project_id" \in DOMAIN traces[trace_id]
    /\ traces[trace_id]["project_id"] \in ps

\* the trace is stored and belongs to a project outside ps
OwnedByOther(trace_id, ps) ==
    /\ trace_id \in DOMAIN traces
    /\ ~ OwnedBy(trace_id, ps)

IsOpen(item) == "end_time" \notin DOMAIN item /\ "duration_ms" \notin DOMAIN item
IsCompleted(item) == "end_time" \in DOMAIN item /\ "duration_ms" \in DOMAIN item

\* C1: a caller of project p that addresses by id a trace of another project
\* (GET trace, POST span, PATCH complete trace) is answered 404, and no response
\* to p (single-trace read or listing) holds a trace of another project or a
\* span of such a trace.
C1_CrossProjectNotFoundNoLeak ==
    Caller # {} =>
        /\ (/\ resp.op \in {"get_trace", "create_span", "complete_trace"}
            /\ OwnedByOther(resp.id, Caller))
               => resp.status = 404 /\ resp.created = 0
        /\ \A i \in 1..Len(resp.traces) : resp.traces[i]["project_id"] \in Caller
        /\ \A s \in resp.spans : OwnedBy(s["trace_id"], Caller)

C1_Witness ==
    /\ Caller # {}
    /\ resp.op = "get_trace"
    /\ OwnedByOther(resp.id, Caller)
    /\ resp.status = 404
    /\ \E s \in DOMAIN spans : spans[s]["trace_id"] = resp.id

\* C2: a create-span, complete-span or complete-trace request of project p
\* whose target is a trace of another project q (or a span of such a trace)
\* leaves every trace and span record of q as it was and stores no new span
\* with the trace_id of the target.
C2_Step ==
    LET p == extract_project_id(resp'.key)
        target == IF resp'.op = "complete_span"
                  THEN IF resp'.id \in DOMAIN spans
                       THEN {spans[resp'.id]["trace_id"]} ELSE {}
                  ELSE {resp'.id}
    IN  (/\ resp'.op \in {"create_span", "complete_span", "complete_trace"}
         /\ p # {}
         /\ \E t \in target : OwnedByOther(t, p))
        => /\ \A t \in DOMAIN traces :
                 OwnedByOther(t, p) => t \in DOMAIN traces' /\ traces'[t] = traces[t]
           /\ \A s \in DOMAIN spans :
                 OwnedByOther(spans[s]["trace_id"], p)
                     => s \in DOMAIN spans' /\ spans'[s] = spans[s]
           /\ \A s \in DOMAIN spans' \ DOMAIN spans : spans'[s]["trace_id"] \notin target

C2_NoCrossProjectWrite == [][C2_Step]_vars

C2_Witness ==
    /\ Caller # {}
    /\ resp.op = "create_span"
    /\ OwnedByOther(resp.id, Caller)
    /\ resp.status = 404
    /\ \E s \in DOMAIN spans : spans[s]["trace_id"] = resp.id

\* C3: a trace or a span is stored open (no end_time, no duration_ms); it stays
\* open until a successful completion call on it; after a successful completion
\* it has both end_time and duration_ms; a completed record never becomes open
\* again.
C3_TableStep(op, old, new) ==
    /\ \A id \in DOMAIN new \ DOMAIN old : IsOpen(new[id])
    /\ \A id \in DOMAIN new : IsOpen(new[id]) \/ IsCompleted(new[id])
    /\ \A id \in DOMAIN old \cap DOMAIN new :
          /\ (IsOpen(old[id]) /\ ~ IsOpen(new[id]))
                 => resp'.op = op /\ resp'.id = id /\ resp'.result
          /\ IsCompleted(old[id]) => IsCompleted(new[id])
    /\ (resp'.op = op /\ resp'.result)
           => resp'.id \in DOMAIN new /\ IsCompleted(new[resp'.id])

C3_Step ==
    /\ C3_TableStep("DynamoDBStorage.complete_trace", traces, traces')
    /\ C3_TableStep("DynamoDBStorage.complete_span", spans, spans')

C3_OpenThenCompleted == [][C3_Step]_vars

C3_Witness ==
    /\ 1 \in DOMAIN traces /\ IsCompleted(traces[1])
    /\ 1 \in DOMAIN spans /\ IsOpen(spans[1])
    /\ resp.op = "DynamoDBStorage.complete_trace" /\ resp.id = 1 /\ resp.result

\* C4: every completed trace and span has duration_ms equal to the floor of
\* (end_time - start_time) in milliseconds, and duration_ms >= 0.
C4_RecordDuration(item) ==
    IsCompleted(item) =>
        /\ item["duration_ms"] = FloorMs(DeltaMicros(fromisoformat(item["end_time"]),
                                                      fromisoformat(item["start_time"])))
        /\ item["duration_ms"] >= 0

C4_DurationIsFloor ==
    /\ \A id \in DOMAIN traces : C4_RecordDuration(traces[id])
    /\ \A id \in DOMAIN spans : C4_RecordDuration(spans[id])

\* C5: a completion call on a record that is already completed succeeds, writes
\* end_time and duration_ms again, writes no field but these and the optional
\* fields given in the call, and leaves every other field, and every other
\* record, as it was.
C5_Frame(old, new, supplied) ==
    LET id == resp'.id
        written == {"end_time", "duration_ms"} \cup supplied
    IN  /\ resp'.result
        /\ DOMAIN new = DOMAIN old
        /\ \A k \in DOMAIN old \ {id} : new[k] = old[k]
        /\ DOMAIN old[id] \subseteq DOMAIN new[id]
        /\ DOMAIN new[id] \subseteq DOMAIN old[id] \cup supplied
        /\ \A f \in DOMAIN old[id] \ written : new[id][f] = old[id][f]
        /\ new[id]["end_time"] = isoformat(now)

C5_Step ==
    /\ (/\ resp'.op = "DynamoDBStorage.complete_trace"
        /\ resp'.id \in DOMAIN traces
        /\ IsCompleted(traces[resp'.id]))
           => /\ C5_Frame(traces, traces',
                          IF resp'.req["output"] = {} THEN {} ELSE {"output"})
              /\ spans' = spans
              /\ \A o \in resp'.req["output"] \ {""} : traces'[resp'.id]["output"] = o
    /\ (/\ resp'.op = "DynamoDBStorage.complete_span"
        /\ resp'.id \in DOMAIN spans
        /\ IsCompleted(spans[resp'.id]))
           => /\ C5_Frame(spans, spans', DOMAIN resp'.req)
              /\ traces' = traces
              /\ \A f \in DOMAIN resp'.req : spans'[resp'.id][f] = resp'.req[f]

C5_RecompletionFrame == [][C5_Step]_vars

C5_Witness ==
    /\ resp.op = "DynamoDBStorage.complete_span"
    /\ resp.result
    /\ resp.req = [output_data |-> d2]
    /\ "error" \in DOMAIN spans[resp.id]
    /\ \E id \in DOMAIN traces : "output" \in DOMAIN traces[id]

\* C6: PATCH /api/spans/{span_id}/complete by the project that owns the trace
\* of the span is answered 200, and the stored span then has end_time,
\* duration_ms and every optional field of the request.
C6_OwnerSpanCompletionStored ==
    (/\ resp.op = "complete_span"
     /\ resp.id \in DOMAIN spans
     /\ OwnedBy(spans[resp.id]["trace_id"], Caller))
        => /\ resp.status = 200
           /\ IsCompleted(spans[resp.id])
           /\ \A f \in DOMAIN resp.req :
                 f \in DOMAIN spans[resp.id] /\ spans[resp.id][f] = resp.req[f]

C8_Step ==
    LET p == extract_project_id(resp'.key)
    IN  resp'.op = "create_trace" =>
            /\ (p # {} /\ resp'.req["project_id"] \notin p)
                   => resp'.status = 403 /\ resp'.created = 0 /\ traces' = traces
            /\ \A t \in DOMAIN traces' \ DOMAIN traces : traces'[t]["project_id"] \in p
            /\ \A t \in DOMAIN traces : t \in DOMAIN traces' /\ traces'[t] = traces[t]

C8_ProjectMismatchForbidden == [][C8_Step]_vars

C8_Witness ==
    /\ resp.op = "create_trace"
    /\ Caller # {}
    /\ resp.req["project_id"] \notin Caller
    /\ resp.status = 403
    /\ traces # <<>>

\* C9: creating a span in a trace, or completing a span, by a caller whose
\* project does not own the trace of the span, or whose trace is no longer
\* stored, is answered 404.
C9_SpanOpsNotFound ==
    Caller # {} =>
        /\ (resp.op = "create_span" /\ ~ OwnedBy(resp.id, Caller))
               => resp.status = 404
        /\ (/\ resp.op = "complete_span"
            /\ resp.id \in DOMAIN spans
            /\ ~ OwnedBy(spans[resp.id]["trace_id"], Caller))
               => resp.status = 404

\* C10: over the pages of one listing walk, each page asked for with the
\* next_cursor of the page before, no trace is returned twice and the traces
\* come in descending order of start_time.
C10_WalkNoDuplicatesDescending ==
    \A i, j \in 1..Len(walk.items) :
        i < j => /\ walk.items[i]["trace_id"] # walk.items[j]["trace_id"]
                 /\ ~ IsoStringLess(walk.items[i]["start_time"],
                                    walk.items[j]["start_time"])

C10_Witness ==
    /\ walk.pages >= 2
    /\ Len(walk.items) >= 2
    /\ \E t \in DOMAIN traces :
          /\ traces[t]["project_id"] = walk.key[2]
          /\ \A i \in 1..Len(walk.items) : walk.items[i]["trace_id"] # t

\* C11: in every list response has_more is true exactly when next_cursor is
\* not null, count is the number of traces of the response and is at most
\* limit, and a page with fewer traces than limit has has_more false; a page
\* that is full carries a next_cursor.
C11_ListResponseShape ==
    (resp.op = "get_traces" /\ resp.status = 200) =>
        /\ resp.has_more <=> resp.next_cursor # {}
        /\ resp.count = Len(resp.traces)
        /\ resp.count <= resp.req["limit"]
        /\ resp.count < resp.req["limit"] => ~ resp.has_more
        /\ resp.count = resp.req["limit"] => resp.has_more

\* five traces listed with limit 2: pages of 2, 2 and 1, the last without
\* has_more
C11_Witness ==
    /\ resp.op = "get_traces"
    /\ resp.req["limit"] = 2
    /\ walk.pages = 3
    /\ Len(walk.items) = 5
    /\ resp.count = 1
    /\ ~ resp.has_more

\* C12: a list request whose cursor cannot be decoded is answered like the
\* request without a cursor: status 200 with the first page, the newest traces
\* of the caller's project.
C12_BadCursorIsNoCursor ==
    (/\ resp.op = "get_traces"
     /\ \E c \in BadCursors : resp.req["cursor"] = {c})
        => LET mine == {t \in DOMAIN traces : OwnedBy(t, Caller)}
               paged == {resp.traces[i]["trace_id"] : i \in 1..Len(resp.traces)}
               limit == resp.req["limit"]
           IN  /\ resp.status = 200
               /\ \A p \in Caller :
                     LET first == DynamoDBStorage_get_traces(traces, p, limit, {})
                     IN  /\ resp.traces = first.items
                         /\ resp.next_cursor = first.next_cursor
               /\ paged \subseteq mine
               /\ resp.count = IF Cardinality(mine) < limit THEN Cardinality(mine) ELSE limit
               /\ \A t \in mine \ paged : \A i \in 1..Len(resp.traces) :
                     ~ IsoStringLess(resp.traces[i]["start_time"], traces[t]["start_time"])

C12_Witness ==
    /\ resp.op = "get_traces"
    /\ resp.req["cursor"] = {<<"base64", <<"{not json">>>>}
    /\ resp.count = 2
    /\ resp.has_more
    /\ Cardinality({t \in DOMAIN traces : OwnedBy(t, Caller)}) = 3

\* the requests of an address that the limiter let pass in the window that ends
\* at time t
AcceptedWithin(ip, t) ==
    {i \in 1..Len(accepted[ip]) :
        t - accepted[ip][i] < window_seconds * MicrosPerSecond}

\* C13: the limiter rejects a request with 429 exactly when the requests of the
\* address it let pass within the preceding window have reached the limit;
\* otherwise it lets the request pass and records it; so no window ever holds
\* more than limit accepted requests of one address, and a request that comes
\* when the window has passed is accepted.
C13_Step ==
    resp'.op = "check_rate_limit" =>
        LET ip == resp'.req["ip"]
            t == time_time(now)
        IN  /\ resp'.status = 429 <=> Cardinality(AcceptedWithin(ip, t)) >= requests_per_minute
            /\ resp'.status = 429 => accepted' = accepted /\ ~ resp'.result
            /\ resp'.status # 429 =>
                  /\ resp'.result
                  /\ accepted' = [accepted EXCEPT ![ip] = Append(@, t)]
                  /\ requests'[ip][Len(requests'[ip])] = t
            /\ AcceptedWithin(ip, t) = {} => resp'.result

C13_WindowHoldsAtMostLimit ==
    \A ip \in ClientIps : \A i \in 1..Len(accepted[ip]) :
        Cardinality({j \in 1..Len(accepted[ip]) :
            /\ accepted[ip][j] >= accepted[ip][i]
            /\ accepted[ip][j] - accepted[ip][i] < window_seconds * MicrosPerSecond})
          <= requests_per_minute

C13_SlidingWindowLimit == [] C13_WindowHoldsAtMostLimit /\ [][C13_Step]_vars

\* a request accepted again when the window of two accepted ones has passed
C13_Witness ==
    /\ resp.op = "check_rate_limit"
    /\ resp.result
    /\ \E ip \in ClientIps :
          /\ resp.req["ip"] = ip
          /\ Len(accepted[ip]) = requests_per_minute + 1
          /\ Len(requests[ip]) = 1

\* the middleware answers a request of an address that is over its limit
\* itself: the request does not go on to its route, where the API key is
\* evaluated and the store is used; and only requests under the limit go on
C14_OrderStep ==
    /\ resp'.op = "rate_limit_middleware" =>
          /\ Cardinality(AcceptedWithin(resp'.req.ip, time_time(now))) >= requests_per_minute
          /\ inflight' = inflight
          /\ traces' = traces /\ spans' = spans
    /\ \A r \in inflight' \ inflight :
          Cardinality(AcceptedWithin(r.ip, time_time(now))) < requests_per_minute

C14_LimiterFirst == [][C14_OrderStep]_vars

\* C14: rate limiting runs before authorization: a request of an address that
\* is over its limit is answered 429 by the middleware, before its API key is
\* evaluated and before any access to the store, whatever its key.
C14_Step ==
    /\ C14_OrderStep
    /\ resp'.op = "rate_limit_middleware" => resp'.status = 429

C14_RateLimitBeforeAuthorization == [][C14_Step]_vars

\* API keys are required, and the keys that are configured
KeysRequired == lower(getenv(environ, "API_KEY_REQUIRED", "false")) = "true"

ConfiguredKeys ==
    LET parts == split(getenv(environ, "API_KEYS", <<>>))
    IN  {parts[i] : i \in 1..Len(parts)}

\* C15: when API keys are required, a request to a protected endpoint whose
\* X-API-Key header is missing or is not one of the configured keys is answered
\* 401: the tables stay as they are and the response carries nothing read from
\* them.
C15_Step ==
    \A r \in inflight \ inflight' :
        (KeysRequired /\ (r.header = {} \/ r.header \cap ConfiguredKeys = {}))
            => /\ resp' = Response(r.op, <<>>, r.id, r.body, 401)
               /\ traces' = traces /\ spans' = spans
               /\ nextTraceId' = nextTraceId /\ nextSpanId' = nextSpanId

C15_BadKeyUnauthorized == [][C15_Step]_vars

\* a completion request for a stored trace answered 401
C15_Witness ==
    /\ resp.op = "complete_trace"
    /\ resp.status = 401
    /\ resp.id \in DOMAIN traces
    /\ IsOpen(traces[resp.id])
    /\ KeysRequired

\* a call to the store answered with an error during the storage method of the
\* step
StoreErred == resp'.erred /\ resp'.req["fault"].exc = "ClientError"

\* the degraded results of the methods other than get_stats
C16_DegradedStep ==
    StoreErred =>
        /\ resp'.raised = {}
        /\ traces' = traces /\ spans' = spans
        /\ resp'.op = "DynamoDBStorage.get_trace" => resp'.traces = <<>>
        /\ resp'.op = "DynamoDBStorage.get_span" => resp'.spans = {}
        /\ resp'.op = "DynamoDBStorage.get_traces" =>
              resp'.traces = <<>> /\ resp'.next_cursor = {}
        /\ resp'.op = "DynamoDBStorage.get_spans" => resp'.spans = {}
        /\ resp'.op \in {"DynamoDBStorage.complete_trace", "DynamoDBStorage.complete_span"}
              => ~ resp'.result

C16_MethodsDegrade == [][C16_DegradedStep]_vars

\* C16: when the store answers a call with an error, no storage read or
\* completion method raises: get_trace and get_span return None, get_traces and
\* get_spans return empty collections, get_stats returns all-zero totals,
\* complete_trace and complete_span return False, and the stored records are
\* unchanged.
C16_Step ==
    /\ C16_DegradedStep
    /\ (StoreErred /\ resp'.op = "DynamoDBStorage.get_stats") => resp'.stats = NoStats

C16_StoreErrorDegrades == [][C16_Step]_vars

\* C17: an exception raised inside a handler that carries no HTTP status is
\* answered 500 with the JSON body {"detail": <string>}; one that carries an
\* HTTP status is passed on with that status.
C17_HandlerErrors ==
    \A e \in resp.raised :
        IF e.type = "HTTPException"
        THEN resp.status = e.status_code /\ resp.json = [detail |-> e.detail]
        ELSE /\ resp.status = 500
             /\ DOMAIN resp.json = {"detail"}
             /\ resp.json["detail"] \in STRING

\* a RuntimeError of save_trace answered 500
C17_Witness ==
    /\ resp.op = "create_trace"
    /\ resp.raised = {Error("RuntimeError", "Simulated database connection failure")}
    /\ resp.status = 500
    /\ resp.json = [detail |-> "Simulated database connection failure"]

\* the payloads of the stored records
StoredMetadata ==
    {traces[t]["metadata"] : t \in DOMAIN traces} \cup {spans[x]["metadata"] : x \in DOMAIN spans}

\* C18: whatever the client sent, the JSON serialization of every metadata
\* payload in the store is at most MAX_METADATA_SIZE long.
C18_StoredWithinCeiling ==
    \A m \in StoredMetadata : json_dumps_len(m) <= MAX_METADATA_SIZE

\* the same for the output_data a completion request hands to its handler
\* after one pass of the guard, against MAX_INPUT_OUTPUT_SIZE
C18_ValidatedWithinCeiling ==
    resp.op = "SpanCompleteRequest" => json_dumps_len(resp.json) <= MAX_INPUT_OUTPUT_SIZE

\* what one application of the guard must give: data unchanged and without
\* the tag when it fits, the tag True exactly when out differs from data, and
\* _original_size, when present, the length of data's serialization
Tagged(data, out, max_size) ==
    /\ json_dumps_len(data) <= max_size => out = data /\ "_truncated" \notin DOMAIN out
    /\ "_truncated" \in DOMAIN out <=> out # data
    /\ out # data => out["_truncated"] = <<"bool">>
    /\ "_original_size" \in DOMAIN out =>
           out["_original_size"] = <<"int", json_dumps_len(data)>>

\* the request that made the record the last response names, and the record's payload
Ingested ==
    IF resp.op = "create_trace" /\ resp.status = 200
    THEN {<<stringify_metadata(resp.req.metadata), traces[resp.created]["metadata"], MAX_METADATA_SIZE>>}
    ELSE IF resp.op = "create_span" /\ resp.status = 200
    THEN {<<stringify_metadata(resp.req.metadata), spans[resp.created]["metadata"], MAX_METADATA_SIZE>>}
    ELSE IF resp.op = "SpanCompleteRequest"
    THEN {<<resp.req.output_data, resp.json, MAX_INPUT_OUTPUT_SIZE>>}
    ELSE {}

\* C19: a payload carries the key _truncated exactly when the size guard
\* modified it: one that fits its ceiling is kept unchanged and without the
\* tag, a rewritten one carries _truncated: true, and _original_size is the
\* size before truncation.
C19_TruncatedIffModified ==
    \A p \in Ingested : Tagged(p[1], p[2], p[3])

\* the same for one pass of the guard over payloads that do not have the key
\* _truncated themselves
C19_OnePassTagged ==
    resp.op = "SpanCompleteRequest" /\ "_truncated" \notin DOMAIN resp.req.output_data
        => Tagged(resp.req.output_data, resp.json, MAX_INPUT_OUTPUT_SIZE)

\* the parts of C19 for the stored metadata of clients that send no key _truncated
C19_StoredTagIffModified ==
    \A p \in Ingested :
        resp.op # "SpanCompleteRequest" /\ "_truncated" \notin DOMAIN p[1]
            => ("_truncated" \in DOMAIN p[2] <=> p[2] # p[1])

C19_StoredTagIsTrue ==
    \A p \in Ingested :
        resp.op # "SpanCompleteRequest" /\ "_truncated" \notin DOMAIN p[1] /\ p[2] # p[1]
            => p[2]["_truncated"] = <<"bool">>

C19_StoredOriginalSize ==
    \A p \in Ingested :
        resp.op # "SpanCompleteRequest" /\ "_original_size" \in DOMAIN p[2]
            => p[2]["_original_size"] = <<"int", json_dumps_len(p[1])>>

\* C20: the parent_span_id of every stored span that has one is the id of a
\* stored span of the same trace.
C20_ParentInSameTrace ==
    \A x \in DOMAIN spans :
        "parent_span_id" \in DOMAIN spans[x] =>
            /\ spans[x]["parent_span_id"] \in DOMAIN spans
            /\ spans[spans[x]["parent_span_id"]]["trace_id"] = spans[x]["trace_id"]

\* the part of C20 that holds: a span is stored with the parent_span_id its
\* request named, in the trace its request named
C20_ParentAsRequested ==
    resp.op = "create_span" /\ resp.status = 200 =>
        /\ spans[resp.created]["trace_id"] = resp.id
        /\ "parent_span_id" \in DOMAIN resp.req <=> "parent_span_id" \in DOMAIN spans[resp.created]
        /\ "parent_span_id" \in DOMAIN resp.req =>
               spans[resp.created]["parent_span_id"] = resp.req["parent_span_id"]

\* the scopes that are open
OpenScopes == {tracer.stack[i].n : i \in 1..Len(tracer.stack)}

\* the completion call of a scope carries the error string of e: as error for
\* a span, within output for a trace
Carries(call, e) ==
    IF call.op = "complete_span" THEN call.error = {str(e)}
    ELSE call.output = {<<"Error: ", str(e)>>}

\* a scope is left in this step
Exits == Len(tracer'.stack) = Len(tracer.stack) - 1

\* a scope with an identifier is left with one completion call, one without
\* with none and with no request, and the exception that is propagating goes on
C21_ExitStep ==
    Exits =>
        /\ Top.id # {} => /\ Len(tracer'.calls[Top.n]) = 1
                          /\ tracer'.calls[Top.n][1].id = Top.id
        /\ Top.id = {} => tracer'.calls[Top.n] = <<>> /\ tracer'.http = tracer.http
        /\ tracer.raised # {} => tracer'.raised = tracer.raised

\* no scope has a completion call while it is open, and afterwards it has
\* exactly one if its creation returned an identifier, none otherwise
C21_OneCompletion ==
    \A n \in DOMAIN tracer.ids :
        Len(tracer.calls[n]) = IF n \notin OpenScopes /\ tracer.ids[n] # {} THEN 1 ELSE 0

\* C21: every scope whose creation returned an identifier issues exactly one
\* completion call when it exits, normally or by exception; on exit by
\* exception the call carries the error string and the exception propagates;
\* a scope without identifier issues no completion call.
C21_ScopesCompleteOnce ==
    /\ [] C21_OneCompletion
    /\ [][C21_ExitStep]_vars
    /\ [][Exits /\ tracer.raised # {} /\ Top.id # {} =>
              Carries(tracer'.calls[Top.n][1], CHOOSE e \in tracer.raised : TRUE)]_vars

\* the part of C21 that holds: one completion call on every exit, and the
\* error string of every exception that is an Exception
C21_ErrorsCarried ==
    /\ [] C21_OneCompletion
    /\ [][C21_ExitStep]_vars
    /\ [][Exits /\ tracer.raised # {} /\ Top.id # {}
              /\ isinstance_Exception(CHOOSE e \in tracer.raised : TRUE) =>
              Carries(tracer'.calls[Top.n][1], CHOOSE e \in tracer.raised : TRUE)]_vars

\* C22: no call of the client library raises into user code because of a
\* network or server failure: create_trace and create_span return None,
\* complete_span and complete_trace return nothing, and a disabled client
\* makes no HTTP request at all.
C22_NothingRaised ==
    /\ tracer.last.exc = {}
    /\ tracer.raised \subseteq BodyRaises
    /\ tracer.last.outcome # "2xx" => tracer.last.value = {}
    /\ tracer.last.op \in {"complete_span", "complete_trace"} => tracer.last.value = {}
    /\ ~tracer.enabled => tracer.http = 0 /\ tracer.last.requests = 0

C22_Witness ==
    /\ tracer.last.op = "create_span"
    /\ tracer.last.outcome = "2xx without id"
    /\ tracer.last.value = {}
    /\ tracer.http = 2

\* the traces of a project, the 50 most recent of them, and their spans
TracesOf(p) == {t \in DOMAIN traces : traces[t]["project_id"] = p}

Recent50(p) ==
    {t \in TracesOf(p) :
        Cardinality({u \in TracesOf(p) :
            IsoStringLess(traces[t]["start_time"], traces[u]["start_time"])}) < 50}

SpansOfRecent(p) == {spans[x] : x \in {y \in DOMAIN spans : spans[y]["trace_id"] \in Recent50(p)}}

\* what GET /api/stats must give for project p, but for total_cost
TotalsOf(p, stats) ==
    /\ stats.total_traces = Cardinality(TracesOf(p))
    /\ stats.total_spans = Cardinality(SpansOfRecent(p))
    /\ stats.total_tokens = SumOver(SpansOfRecent(p), "tokens_input")
                            + SumOver(SpansOfRecent(p), "tokens_output")

C24_TraceKeepsProject ==
    /\ [](\A t \in DOMAIN traces : "project_id" \in DOMAIN traces[t])
    /\ [][\A t \in DOMAIN traces' :
             /\ "project_id" \in DOMAIN traces'[t]
             /\ IF t \in DOMAIN traces
                THEN "project_id" \in DOMAIN traces[t]
                        => traces'[t]["project_id"] = traces[t]["project_id"]
                ELSE /\ resp'.op = "DynamoDBStorage.save_trace"
                     /\ resp'.created = t
                     /\ traces'[t]["project_id"] = resp'.req.project_id]_vars

\* the part of C24 that holds: a record that has a project_id keeps it in every
\* step that leaves the record in the store, and save_trace stores the one it
\* is given
C24_ProjectNeverRewritten ==
    [][\A t \in DOMAIN traces' :
          /\ t \in DOMAIN traces /\ "project_id" \in DOMAIN traces[t]
                => /\ "project_id" \in DOMAIN traces'[t]
                   /\ traces'[t]["project_id"] = traces[t]["project_id"]
          /\ resp'.op = "DynamoDBStorage.save_trace" /\ resp'.created = t
                => traces'[t]["project_id"] = resp'.req.project_id]_vars
\* the optional fields a completion of a span can supply
SpanOptionalFields == complete_span_params \ {"span_id", "end_time"}

\* the calls whose write the store accepted in this step
Accepted == running \ running'

\* the record of the call's span after the store accepted the call's write:
\* end_time and duration_ms are the call's, the optional fields the call
\* supplied are the call's, and the others are as they were
C26_Reflects(call, ms(_)) ==
    LET old == spans[call.id]
        new == spans'[call.id]
    IN  /\ new["end_time"] = isoformat(call.end_time)
        /\ "start_time" \in DOMAIN new
        /\ new["duration_ms"] = ms(DeltaMicros(fromisoformat(new["end_time"]),
                                               fromisoformat(new["start_time"])))
        /\ \A f \in DOMAIN call.args : new[f] = call.args[f]
        /\ \A f \in SpanOptionalFields \ DOMAIN call.args :
              IF f \in DOMAIN old THEN f \in DOMAIN new /\ new[f] = old[f]
              ELSE f \notin DOMAIN new

\* C26: under any interleaving of concurrent completion calls on the same
\* span, the stored record reflects the last write the store accepted: after
\* each accepted write its end_time and duration_ms are those of that call,
\* with duration_ms = end_time - start_time in milliseconds, each optional
\* field holds the value of the last accepted write that supplied it, and the
\* record changes in no other step
C26_LastWriteWins ==
    [][/\ \A call \in Accepted : C26_Reflects(call, FloorMs)
       /\ Accepted = {} => \A s \in DOMAIN spans : s \in DOMAIN spans' /\ spans'[s] = spans[s]]_vars

\* the part of C26 that holds: the same with duration_ms as complete_span
\* computes it from the end_time and start_time of the record
C26_LastWriteWinsAsComputed ==
    [][/\ \A call \in Accepted : C26_Reflects(call, total_seconds_ms)
       /\ Accepted = {} => \A s \in DOMAIN spans : s \in DOMAIN spans' /\ spans'[s] = spans[s]]_vars

\* two calls on one span were in progress together and the write of the one
\* that read last was accepted first
C26_Overtaken ==
    /\ Cardinality(running) = 1
    /\ \E call \in running :
          /\ call.id \in DOMAIN spans
          /\ "end_time" \in DOMAIN spans[call.id]
          /\ DeltaMicros(fromisoformat(spans[call.id]["end_time"]), call.end_time) > 0
\* the record a completion request names
Completed(r) ==
    IF r.op = "complete_trace"
    THEN r.id \in DOMAIN traces /\ "end_time" \in DOMAIN traces[r.id]
    ELSE r.id \in DOMAIN spans /\ "end_time" \in DOMAIN spans[r.id]

\* C27: a completion endpoint answers 200 with status "completed" only when
\* the storage completion succeeded, that is only when the record has its
\* end_time afterwards; when the storage completion reports failure the caller
\* does not receive a success response
C27_SuccessOnlyWhenStored ==
    resp.op \in {"complete_trace", "complete_span"} /\ resp.status = 200
        => resp.result /\ Completed(resp)

\* the part of C27 that holds: when no call to the store raises, an answer 200
\* of a completion endpoint comes after a successful storage completion, and
\* the record has its end_time
C27_SuccessWhenStoreAnswers ==
    (/\ resp.op \in {"complete_trace", "complete_span"}
     /\ resp.status = 200
     /\ ~ resp.erred)
        => resp.result /\ Completed(resp)
\* C25: while a client walks the pages of a listing, a trace created after a
\* cursor was issued never appears in a page reached by continuing from that
\* cursor: every trace of the walk was in the store when the first page, and
\* with it the first cursor, was answered
C25_ContinuationIsSnapshot ==
    "known" \in DOMAIN walk =>
    \A i \in 1..Len(walk.items) : walk.items[i]["trace_id"] \in walk.known

\* the part of C25 that holds: a trace whose start_time was read from the
\* clock after the first cursor was issued never appears in the walk
C25_LaterStampedNeverListed ==
    "issued" \in DOMAIN walk =>
    \A i \in 1..Len(walk.items) :
        ~ IsoStringLess(isoformat(walk.issued), walk.items[i]["start_time"])
\* a stored trace matches the requested filters: the user_id and session_id
\* asked for are its own, and it carries one of the tags asked for
Matches(trace, filters) ==
    /\ \A u \in filters.user_id : "user_id" \in DOMAIN trace /\ trace["user_id"] = u
    /\ \A x \in filters.session_id :
          "session_id" \in DOMAIN trace /\ trace["session_id"] = x
    /\ \A tags \in filters.tags :
          \E i \in 1..Len(tags), j \in 1..Len(trace["tags"]) : tags[i] = trace["tags"][j]

\* the walk has reached the page whose has_more is false
WalkEnded == walk # NoWalk /\ "filters" \in DOMAIN walk /\ ~ resp.has_more

\* C28: with no writes in between, following next_cursor from the first page
\* until has_more is false returns every trace of the caller's project that
\* matches the requested user_id, session_id and tags filters, each exactly
\* once, for every limit
C28_FilteredWalkComplete ==
    WalkEnded =>
        \A t \in DOMAIN traces :
            (traces[t]["project_id"] = walk.key[2] /\ Matches(traces[t], walk.filters))
                => Cardinality({i \in 1..Len(walk.items) :
                                   walk.items[i]["trace_id"] = t}) = 1

\* a walk with a filter has ended after a page that the filter left empty,
\* with a matching trace on a later page
C28_Witness ==
    /\ WalkEnded
    /\ walk.pages >= 3
    /\ walk.filters.user_id # {} \/ walk.filters.tags # {}
    /\ Len(walk.items) >= 1
    /\ Len(walk.items) < Cardinality({t \in DOMAIN traces :
                                        traces[t]["project_id"] = walk.key[2]})
    /\ \E t \in DOMAIN traces :
          /\ traces[t]["project_id"] = walk.key[2]
          /\ ~ Matches(traces[t], walk.filters)
          /\ \E i \in 1..Len(walk.items) :
                IsoStringLess(walk.items[i]["start_time"], traces[t]["start_time"])
\* the call of _drop_large_keys in progress
Dropping == {call \in running : call.op = "_drop_large_keys"}

\* a round of the loop: it marks exactly one key that was not dropped yet, and
\* is taken only while the payload does not fit and such a key remains
C29_Round ==
    \A call \in Dropping : \A next \in running' :
        /\ json_dumps_len(call.result) > call.max_size
        /\ \E k \in DOMAIN call.result \ call.dropped_keys :
              /\ next.dropped_keys = call.dropped_keys \cup {k}
              /\ next.result[k][3] = "dropped"
              /\ \A o \in DOMAIN call.result \ {k} : next.result[o] = call.result[o]

\* the return of the function: the payload fits or no key remains to be dropped
C29_Return ==
    \A call \in Dropping : running' = {} =>
        \/ json_dumps_len(call.result) <= call.max_size
        \/ DOMAIN call.result \subseteq call.dropped_keys

\* C29: the key-dropping strategy of the size guard terminates for every
\* payload: each round marks one not-yet-dropped key as dropped, it stops
\* when the payload fits or when no droppable key remains, and every call
\* that has entered the loop returns
C29_DropTerminates ==
    /\ [][(running' # {} => C29_Round) /\ C29_Return]_vars
    /\ (Dropping # {}) ~> (running = {})

\* a call returns with every key dropped and the payload still above the
\* ceiling, after as many rounds as the payload has keys
C29_Witness ==
    /\ resp.op = "_drop_large_keys"
    /\ Cardinality(DOMAIN resp.json) >= 3
    /\ json_dumps_len(resp.json) > resp.req.max_size
    /\ \A k \in DOMAIN resp.json : resp.json[k][3] = "dropped"
\* how often an element occurs in a sequence
Occurrences(seq, x) == Cardinality({i \in 1..Len(seq) : seq[i] = x})

\* the parent of a listed span is in the list
HasListedParent(span, listed) ==
    \E q \in span.parent_span_id : \E i \in 1..Len(listed) : listed[i].span_id = q

\* following parent_span_id from the span leads, within n steps, to a span
\* that has no parent in the list
RECURSIVE Anchored(_, _, _)
Anchored(span, listed, n) ==
    \/ ~ HasListedParent(span, listed)
    \/ /\ n > 0
       /\ \E i \in 1..Len(listed) :
             /\ listed[i].span_id \in span.parent_span_id
             /\ Anchored(listed[i], listed, n - 1)

\* the links of the tree: a span without a parent in the list is a root and
\* nobody's child, every other span is once among the children of the span
\* its parent_span_id names, and of no other
C30_Linked(listed, tree) ==
    \A i \in 1..Len(listed) :
        LET span == listed[i]
        IN  /\ Occurrences(tree.roots, span.span_id) =
                  (IF HasListedParent(span, listed) THEN 0 ELSE 1)
            /\ \A p \in DOMAIN tree.children :
                  Occurrences(tree.children[p], span.span_id) =
                      (IF p \in span.parent_span_id THEN 1 ELSE 0)

\* C30: for every flat list of spans, the display tree builder terminates and
\* places every span exactly once in the resulting forest: a span with no
\* parent_span_id, or with one absent from the list, is a root, every other
\* span is a child of the span its parent_span_id names, and spans whose
\* parent links form a cycle are not lost
C30_EverySpanPlacedOnce ==
    resp.op = "DashboardState.flattened_spans" =>
        LET listed == resp.req.selected_spans
            placed == [i \in 1..Len(resp.json.result) |-> resp.json.result[i].span_id]
        IN  /\ C30_Linked(listed, resp.json.tree)
            /\ \A i \in 1..Len(listed) : Occurrences(placed, listed[i].span_id) = 1

\* the part of C30 that holds: the links are as the claim says for every
\* span, and every span whose parent links end at a root is placed exactly
\* once in the forest
C30_AnchoredSpansPlacedOnce ==
    resp.op = "DashboardState.flattened_spans" =>
        LET listed == resp.req.selected_spans
            placed == [i \in 1..Len(resp.json.result) |-> resp.json.result[i].span_id]
        IN  /\ C30_Linked(listed, resp.json.tree)
            /\ \A i \in 1..Len(listed) :
                  Occurrences(placed, listed[i].span_id) =
                      (IF Anchored(listed[i], listed, Len(listed)) THEN 1 ELSE 0)
====
